---- MODULE Spec2Model ----
(***************************************************************************)
(* A model of the place capability graph (PCG) analysis: the capability    *)
(* lattice, places and their expansion / collapse, the join of capability  *)
(* summaries, the flat place-capability map, the fixpoint iteration and    *)
(* the construction of call abstractions.                                  *)
(***************************************************************************)
EXTENDS Integers, Sequences, FiniteSets, TLC

(***************************************************************************)
(* Bounds of the model.                                                    *)
(***************************************************************************)
\* Number of fields of the struct type S of local _1 and of the first
\* variant of the enum type of local _4.
NumFields == 2

(***************************************************************************)
(* Generic helpers on sequences and sets.                                  *)
(***************************************************************************)
Front(s) == SubSeq(s, 1, Len(s) - 1)

Last(s) == s[Len(s)]

RECURSIVE Reverse(_)
Reverse(s) == IF s = <<>> THEN <<>> ELSE Append(Reverse(Tail(s)), Head(s))

\* Binds the value v to the parameter of F: a local name for a value that is
\* computed once and read several times
Let(v, F(_)) == F(v)

Range(s) == {s[i] : i \in 1..Len(s)}

(***************************************************************************)
(* Capability lattice.  The kinds and their order None < Read < Write <    *)
(* Exclusive; partial_cmp answers "Incomparable" for a pair that the order *)
(* does not relate, and minimum then has no result.                        *)
(***************************************************************************)
CapabilityKind == {"None", "Read", "Write", "Exclusive"}

CapRank(c) ==
    CASE c = "None" -> 0
      [] c = "Read" -> 1
      [] c = "Write" -> 2
      [] c = "Exclusive" -> 3

NoCapability == "NoCapability"

CapabilityKind_partial_cmp(a, b) ==
    IF a \notin CapabilityKind \/ b \notin CapabilityKind THEN "Incomparable"
    ELSE IF CapRank(a) < CapRank(b) THEN "Less"
    ELSE IF CapRank(a) > CapRank(b) THEN "Greater"
    ELSE "Equal"

\* a > b of PartialOrd
cap_gt(a, b) == CapabilityKind_partial_cmp(a, b) = "Greater"

\* a <= b of PartialOrd
cap_le(a, b) == CapabilityKind_partial_cmp(a, b) \in {"Less", "Equal"}

\* CapabilityKind::minimum: Some(min) when comparable, None (NoCapability) otherwise
minimum(a, b) ==
    LET o == CapabilityKind_partial_cmp(a, b) IN
    IF o = "Incomparable" THEN NoCapability
    ELSE IF o = "Greater" THEN b ELSE a

(***************************************************************************)
(* Types of the locals of the analysed body.                               *)
(*   _1 : struct S { f0, .., f(NumFields-1) : i32 }                        *)
(*   _2 : (i32, (i32, i32))                                                *)
(*   _3 : &mut (i32, i32)                                                  *)
(*   _4 : enum E { V0(i32, .., i32), V1(i32) }                             *)
(*   _5 : [i32; 2]                                                         *)
(* A type is a record; variants holds, per variant, the types of the       *)
(* fields (a struct or a tuple has one variant, a reference or an array    *)
(* one variant with the one pointee / element type).                       *)
(***************************************************************************)
TyInt == [kind |-> "Int", is_enum |-> FALSE, len |-> 0, variants |-> <<>>]

TyStructS ==
    [kind |-> "Adt", is_enum |-> FALSE, len |-> 0,
     variants |-> << [i \in 1..NumFields |-> TyInt] >>]

TyPair == [kind |-> "Tuple", is_enum |-> FALSE, len |-> 0, variants |-> << <<TyInt, TyInt>> >>]

TyNested ==
    [kind |-> "Tuple", is_enum |-> FALSE, len |-> 0, variants |-> << <<TyInt, TyPair>> >>]

TyRefMutPair == [kind |-> "Ref", is_enum |-> FALSE, len |-> 0, variants |-> << <<TyPair>> >>]

TyEnumE ==
    [kind |-> "Adt", is_enum |-> TRUE, len |-> 0,
     variants |-> << [i \in 1..NumFields |-> TyInt], <<TyInt>> >>]

TyArray == [kind |-> "Array", is_enum |-> FALSE, len |-> 2, variants |-> << <<TyInt>> >>]

Locals == 1..5

local_decls(l) ==
    CASE l = 1 -> TyStructS
      [] l = 2 -> TyNested
      [] l = 3 -> TyRefMutPair
      [] l = 4 -> TyEnumE
      [] l = 5 -> TyArray

(***************************************************************************)
(* Places: a local and a sequence of projection elements.                  *)
(***************************************************************************)
NoVariant == -1

Field(i) == [kind |-> "Field", index |-> i, min_length |-> 0, from_end |-> FALSE]

Deref == [kind |-> "Deref", index |-> 0, min_length |-> 0, from_end |-> FALSE]

Downcast(v) == [kind |-> "Downcast", index |-> v, min_length |-> 0, from_end |-> FALSE]

ConstantIndex(offset, min_length, from_end) ==
    [kind |-> "ConstantIndex", index |-> offset, min_length |-> min_length,
     from_end |-> from_end]

Place(l, proj) == [local |-> l, projection |-> proj]

LocalPlace(l) == Place(l, <<>>)

mk_place_elem(p, elem) == Place(p.local, Append(p.projection, elem))

mk_deref(p) == mk_place_elem(p, Deref)

\* PlaceTy::projection_ty: the type (and variant) reached by one projection
projection_ty(pty, elem) ==
    CASE elem.kind = "Field" ->
            [ty |-> pty.ty.variants[IF pty.variant_index = NoVariant THEN 1
                                    ELSE pty.variant_index + 1][elem.index + 1],
             variant_index |-> NoVariant]
      [] elem.kind = "Deref" -> [ty |-> pty.ty.variants[1][1], variant_index |-> NoVariant]
      [] elem.kind = "Downcast" -> [ty |-> pty.ty, variant_index |-> elem.index]
      [] elem.kind = "ConstantIndex" ->
            [ty |-> pty.ty.variants[1][1], variant_index |-> NoVariant]

RECURSIVE TyOfProjection(_, _)
TyOfProjection(pty, proj) ==
    IF proj = <<>> THEN pty
    ELSE TyOfProjection(projection_ty(pty, Head(proj)), Tail(proj))

\* Place::ty
PlaceTyOf(p) ==
    TyOfProjection([ty |-> local_decls(p.local), variant_index |-> NoVariant], p.projection)

\* Place::is_prefix (reflexive)
is_prefix(p, q) ==
    /\ p.local = q.local
    /\ Len(p.projection) <= Len(q.projection)
    /\ SubSeq(q.projection, 1, Len(p.projection)) = p.projection

\* Place::expand_field: the places of the fields of self, without the field
\* without_field (NoVariant stands for no field left out)
expand_field(self, without_field) ==
    LET typ == PlaceTyOf(self) IN
    CASE typ.ty.kind \in {"Adt", "Tuple"} ->
            LET fields == typ.ty.variants[IF typ.variant_index = NoVariant THEN 1
                                          ELSE typ.variant_index + 1]
                keep == SelectSeq([i \in 1..Len(fields) |-> i - 1],
                                  LAMBDA idx : idx # without_field)
            IN [k \in 1..Len(keep) |-> mk_place_elem(self, Field(keep[k]))]
      [] typ.ty.kind = "Ref" -> << mk_deref(self) >>

\* expand_one_level that forgets to leave the projected field out of the
\* other places
expand_one_level_keeps_field(self, guide_place) ==
    LET index == Len(self.projection)
        elem == guide_place.projection[index + 1]
        new_current_place == mk_place_elem(self, elem)
    IN
    CASE elem.kind = "Field" ->
            [place |-> new_current_place,
             others |-> expand_field(self, NoVariant),
             kind |-> "Other"]
      [] elem.kind = "ConstantIndex" ->
            [place |-> new_current_place,
             others |-> [k \in 1..elem.min_length |->
                           mk_place_elem(self, ConstantIndex(k - 1, elem.min_length,
                                                             elem.from_end))],
             kind |-> "Other"]
      [] elem.kind = "Deref" ->
            [place |-> new_current_place, others |-> <<>>, kind |-> "Ref"]
      [] elem.kind = "Downcast" ->
            [place |-> new_current_place, others |-> <<>>, kind |-> "Other"]

\* Place::expand_one_level: (new current place, other places, kind of the step)
expand_one_level(self, guide_place) ==
    LET index == Len(self.projection)
        elem == guide_place.projection[index + 1]
        new_current_place == mk_place_elem(self, elem)
    IN
    CASE elem.kind = "Field" ->
            [place |-> new_current_place,
             others |-> expand_field(self, elem.index),
             kind |-> "Other"]
      [] elem.kind = "ConstantIndex" ->
            LET lo == IF elem.from_end THEN 1 ELSE 0
                hi == IF elem.from_end THEN elem.min_length ELSE elem.min_length - 1
                offs == SelectSeq([i \in 1..(hi - lo + 1) |-> lo + i - 1],
                                  LAMBDA i : i # elem.index)
            IN [place |-> new_current_place,
                others |-> [k \in 1..Len(offs) |->
                              mk_place_elem(self, ConstantIndex(offs[k], elem.min_length,
                                                                elem.from_end))],
                kind |-> "Other"]
      [] elem.kind = "Deref" ->
            [place |-> new_current_place, others |-> <<>>, kind |-> "Ref"]
      [] elem.kind = "Downcast" ->
            [place |-> new_current_place, others |-> <<>>, kind |-> "Other"]

\* The loop of Place::expand
RECURSIVE expand_loop(_, _, _, _)
expand_loop(self, to, expanded, place_set) ==
    IF Len(self.projection) < Len(to.projection)
    THEN Let(expand_one_level(self, to), LAMBDA step :
             expand_loop(step.place, to,
                         Append(expanded, <<self, step.place, step.kind>>),
                         place_set \o step.others))
    ELSE [expanded |-> expanded, place_set |-> place_set, panicked |-> FALSE]

\* Place::expand: panics unless self is a prefix of to
expand(self, to) ==
    IF ~is_prefix(self, to)
    THEN [expanded |-> <<>>, place_set |-> <<>>, panicked |-> TRUE]
    ELSE expand_loop(self, to, <<>>, <<>>)

\* The loop of Place::collapse.  The place from.iter().find(..) returns
\* depends on the iteration order of the hash set: every place of from that
\* the guide place is a prefix of is a possible expansion guide, and the
\* operator returns the set of all possible outcomes.
RECURSIVE collapse_loop(_, _, _)
collapse_loop(guide_places, from, collapsed) ==
    IF guide_places = <<>>
    THEN {[collapsed |-> Reverse(collapsed), from |-> from, panicked |-> FALSE]}
    ELSE LET guide_place == Last(guide_places)
             rest == Front(guide_places)
         IN
         IF guide_place \in from
         THEN collapse_loop(rest, from \ {guide_place}, collapsed)
         ELSE LET candidates == {p \in from : is_prefix(guide_place, p)} IN
              IF candidates = {}
              THEN {[collapsed |-> collapsed, from |-> from, panicked |-> TRUE]}
              ELSE UNION {Let(expand(guide_place, expand_guide), LAMBDA e :
                              collapse_loop(rest \o e.place_set,
                                            from \ {expand_guide},
                                            collapsed \o e.expanded))
                          : expand_guide \in candidates}

\* Place::collapse without collapsed.reverse()
collapse_unreversed(self, from) ==
    {[r EXCEPT !.collapsed = Reverse(@)] : r \in collapse_loop(<<self>>, from, <<>>)}

\* Place::collapse
collapse(self, from) == collapse_loop(<<self>>, from, <<>>)

(***************************************************************************)
(* The places of a local and its frontiers (the valid unrollings of its    *)
(* type).                                                                  *)
(***************************************************************************)
\* The one-level expansions of a place: the sets of places a single
\* expand_one_level step (with its other places) replaces the place by.
OneLevelExpansions(p) ==
    LET typ == PlaceTyOf(p) IN
    CASE typ.ty.kind = "Int" -> {}
      [] typ.ty.kind = "Tuple" -> {Range(expand_field(p, NoVariant))}
      [] typ.ty.kind = "Ref" -> {{mk_deref(p)}}
      [] typ.ty.kind = "Array" ->
            {{mk_place_elem(p, ConstantIndex(i, typ.ty.len, FALSE)) : i \in 0..(typ.ty.len - 1)}}
      [] typ.ty.kind = "Adt" ->
            IF typ.ty.is_enum /\ typ.variant_index = NoVariant
            THEN {{mk_place_elem(p, Downcast(v - 1))} : v \in 1..Len(typ.ty.variants)}
            ELSE {Range(expand_field(p, NoVariant))}

RECURSIVE PlacesUnder(_)
PlacesUnder(p) ==
    {p} \cup UNION {UNION {PlacesUnder(c) : c \in E} : E \in OneLevelExpansions(p)}

AllPlaces == UNION {PlacesUnder(LocalPlace(l)) : l \in Locals}

RECURSIVE Frontiers(_)
RECURSIVE FrontierProducts(_)
\* All ways of choosing one frontier per place of the sequence ps
FrontierProducts(ps) ==
    IF ps = <<>> THEN {{}}
    ELSE {f \cup g : f \in Frontiers(Head(ps)), g \in FrontierProducts(Tail(ps))}

\* The places of a set in a fixed order
RECURSIVE SeqOfSet(_)
SeqOfSet(S) ==
    IF S = {} THEN <<>>
    ELSE LET x == CHOOSE y \in S : TRUE IN <<x>> \o SeqOfSet(S \ {x})

Frontiers(p) ==
    {{p}} \cup UNION {FrontierProducts(SeqOfSet(E)) : E \in OneLevelExpansions(p)}

(***************************************************************************)
(* Relations between places.                                               *)
(***************************************************************************)
\* First index at which the projections of two places differ, 0 when one
\* projection is a prefix of the other
FirstDiff(p, q) ==
    LET n == IF Len(p.projection) < Len(q.projection) THEN Len(p.projection)
             ELSE Len(q.projection)
        D == {i \in 1..n : p.projection[i] # q.projection[i]}
    IN IF D = {} THEN 0 ELSE CHOOSE i \in D : \A j \in D : i <= j

\* Place::partial_cmp: "Prefix" (left is a prefix of right), "Equal",
\* "Suffix", "Both" (overlapping, neither contains the other: places that
\* part at different enum variants or at index offsets of different
\* lengths), or "Unrelated" (different locals, or disjoint places)
Place_partial_cmp(left, right) ==
    IF left.local # right.local THEN "Unrelated"
    ELSE LET d == FirstDiff(left, right) IN
         IF d # 0
         THEN LET l == left.projection[d]
                  r == right.projection[d]
              IN IF l.kind = "Downcast" /\ r.kind = "Downcast" THEN "Both"
                 ELSE IF l.kind = "ConstantIndex" /\ r.kind = "ConstantIndex"
                         /\ l.min_length # r.min_length THEN "Both"
                 ELSE "Unrelated"
         ELSE IF Len(left.projection) < Len(right.projection) THEN "Prefix"
         ELSE IF Len(left.projection) = Len(right.projection) THEN "Equal"
         ELSE "Suffix"

\* Place::common_prefix
common_prefix(p, q) ==
    LET d == FirstDiff(p, q)
        n == IF Len(p.projection) < Len(q.projection) THEN Len(p.projection)
             ELSE Len(q.projection)
    IN Place(p.local, SubSeq(p.projection, 1, IF d = 0 THEN n ELSE d - 1))

\* Place::joinable_to: the deepest place between self and to that a join may
\* expand self to: the projections from self up to, and without, the first
\* one that selects an enum variant
joinable_to(self, to) ==
    LET n == Len(self.projection)
        Stops == {i \in (n + 1)..Len(to.projection) :
                    to.projection[i].kind \notin {"Deref", "Field", "ConstantIndex"}}
        upto == IF Stops = {} THEN Len(to.projection)
                ELSE (CHOOSE i \in Stops : \A j \in Stops : i <= j) - 1
    IN Place(self.local, SubSeq(to.projection, 1, upto))

(***************************************************************************)
(* CapabilityProjections: the map from the tracked places of a local to    *)
(* their capabilities.  A hash map is iterated in an order the program     *)
(* does not control: an iteration preference pref says, for the donor's    *)
(* map (pref.other) and for the receiver's map (pref.self), whether the    *)
(* places are visited in the fixed order or in its reverse.                *)
(***************************************************************************)
EmptyCaps == [p \in {} |-> "Exclusive"]

IterOrder(S, reversed) == IF reversed THEN Reverse(SeqOfSet(S)) ELSE SeqOfSet(S)

\* CapabilityProjections::find_all_related: the tracked places related to
\* the place to, with their capabilities, in iteration order
find_all_related(caps, to, pref) ==
    LET R == {p \in DOMAIN caps : Place_partial_cmp(p, to) # "Unrelated"}
        order == IterOrder(R, pref.self)
    IN [i \in 1..Len(order) |-> <<order[i], caps[order[i]]>>]

\* RelatedSet::get_places
get_places(related) == {related[i][1] : i \in 1..Len(related)}

\* HashMap::insert / CapabilityProjections::update_cap
update_cap(caps, place, cap) ==
    [p \in DOMAIN caps \cup {place} |-> IF p = place THEN cap ELSE caps[p]]

RemoveKeys(caps, S) == [p \in DOMAIN caps \ S |-> caps[p]]

\* Lattice minimum of a non-empty set of capabilities (NoCapability if two
\* of them are incomparable)
MinOfSet(C) ==
    IF \E a, b \in C : minimum(a, b) = NoCapability THEN NoCapability
    ELSE CHOOSE a \in C : \A b \in C : minimum(a, b) = a

\* CapabilityProjections::expand: the place from is replaced by the place to
\* and the other places of from.expand(to), each with the capability of from
CapabilityProjections_expand(caps, from, to) ==
    Let(expand(from, to), LAMBDA e :
        IF e.panicked \/ from \notin DOMAIN caps
        THEN [caps |-> caps, panicked |-> TRUE]
        ELSE Let(Range(e.place_set) \cup {to}, LAMBDA new :
                 [caps |-> [p \in (DOMAIN caps \ {from}) \cup new |->
                              IF p \in new THEN caps[from] ELSE caps[p]],
                  panicked |-> FALSE]))

\* CapabilityProjections::collapse: the places of from are removed and the
\* place to is tracked instead, with the lattice minimum of the capabilities
\* removed (places of from no longer tracked are skipped; collapsing again
\* places already collapsed into to leaves to as it is).  Fails when
\* to.collapse cannot consume every place of from.
CapabilityProjections_collapse(caps, from, to) ==
    Let({caps[p] : p \in from \cap DOMAIN caps}
            \cup (IF to \in DOMAIN caps THEN {caps[to]} ELSE {}), LAMBDA old :
        Let(IF old = {} THEN NoCapability ELSE MinOfSet(old), LAMBDA perm :
            IF (\E r \in collapse(to, from) : r.panicked \/ r.from # {})
               \/ perm = NoCapability
            THEN [caps |-> caps, panicked |-> TRUE]
            ELSE [caps |-> update_cap(RemoveKeys(caps, from), to, perm),
                  panicked |-> FALSE]))

(***************************************************************************)
(* The join of capability summaries.  The state of a join in progress is   *)
(* the receiver's map, the changed flag and whether the join has failed.   *)
(***************************************************************************)
Failed(st) == [st EXCEPT !.panicked = TRUE]

\* "Downgrade the permission if needed" at the place the case ended with
DowngradeFinal(st, final_place, kind) ==
    IF st.panicked THEN st
    ELSE IF final_place \notin DOMAIN st.caps THEN Failed(st)
    ELSE IF cap_gt(st.caps[final_place], kind)
         THEN [st EXCEPT !.changed = TRUE, !.caps = update_cap(st.caps, final_place, kind)]
         ELSE st

\* PlaceOrdering::Prefix: the receiver tracks a prefix of the donor's place
JoinPrefix(st, related, place, kind) ==
    IF Len(related) # 1 \/ related[1][1] \notin DOMAIN st.caps THEN Failed(st)
    ELSE Let(related[1][1], LAMBDA from :
         Let(IF st.caps[from] # "Exclusive" THEN from ELSE joinable_to(from, place),
             LAMBDA joinable_place :
             IF ~is_prefix(from, joinable_place) THEN Failed(st)
             ELSE DowngradeFinal(
                      IF joinable_place # from
                      THEN Let(CapabilityProjections_expand(st.caps, from, joinable_place),
                               LAMBDA e : [caps |-> e.caps, changed |-> TRUE,
                                           panicked |-> e.panicked])
                      ELSE st,
                      joinable_place, kind)))

\* PlaceOrdering::Suffix: the inner loop over the related places
RECURSIVE JoinSuffixLoop(_, _, _, _, _)

\* The inner loop with the downgrade applied to the related place p instead
\* of the place collapsed to
JoinSuffixLoop_downgrades_p(st, rest, related, place, kind) ==
    IF rest = <<>> \/ st.panicked THEN st
    ELSE JoinSuffixLoop(
             Let(Head(rest)[1], LAMBDA p :
             Let(Head(rest)[2], LAMBDA k :
                 IF p \notin DOMAIN st.caps THEN st
                 ELSE Let(IF kind # "Exclusive" THEN place ELSE joinable_to(place, p),
                          LAMBDA collapse_to :
                      Let(IF collapse_to # p
                          THEN Let(CapabilityProjections_collapse(
                                       st.caps,
                                       {q \in get_places(related) : is_prefix(collapse_to, q)},
                                       collapse_to),
                                   LAMBDA c : [caps |-> c.caps, changed |-> TRUE,
                                               panicked |-> c.panicked])
                          ELSE st,
                          LAMBDA st1 :
                          IF ~st1.panicked /\ cap_gt(k, kind)
                          THEN [st1 EXCEPT !.changed = TRUE,
                                           !.caps = update_cap(st1.caps, p, kind)]
                          ELSE st1)))),
             Tail(rest), related, place, kind)

JoinSuffixLoop(st, rest, related, place, kind) ==
    IF rest = <<>> \/ st.panicked THEN st
    ELSE JoinSuffixLoop(
             Let(Head(rest)[1], LAMBDA p :
             Let(Head(rest)[2], LAMBDA k :
                 IF p \notin DOMAIN st.caps THEN st
                 ELSE Let(IF kind # "Exclusive" THEN place ELSE joinable_to(place, p),
                          LAMBDA collapse_to :
                      Let(IF collapse_to # p
                          THEN Let(CapabilityProjections_collapse(
                                       st.caps,
                                       {q \in get_places(related) : is_prefix(collapse_to, q)},
                                       collapse_to),
                                   LAMBDA c : [caps |-> c.caps, changed |-> TRUE,
                                               panicked |-> c.panicked])
                          ELSE st,
                          LAMBDA st1 :
                          IF ~st1.panicked /\ cap_gt(k, kind)
                          THEN [st1 EXCEPT !.changed = TRUE,
                                           !.caps = update_cap(st1.caps, collapse_to, kind)]
                          ELSE st1)))),
             Tail(rest), related, place, kind)

\* PlaceOrdering::Both: collapse the related places to the common prefix
JoinBoth(st, related, place, kind) ==
    Let(common_prefix(related[1][1], place), LAMBDA cp :
        DowngradeFinal(
            Let(CapabilityProjections_collapse(st.caps, get_places(related), cp),
                LAMBDA c : [caps |-> c.caps, changed |-> TRUE, panicked |-> c.panicked]),
            cp, kind))

\* The loop `for (from_place, _) in related`
RECURSIVE JoinRelatedLoop(_, _, _, _, _)
JoinRelatedLoop(st, rest, related, place, kind) ==
    IF rest = <<>> \/ st.panicked THEN st
    ELSE JoinRelatedLoop(
             Let(Place_partial_cmp(Head(rest)[1], place), LAMBDA ord :
                 CASE ord = "Prefix" -> JoinPrefix(st, related, place, kind)
                   [] ord = "Equal" -> DowngradeFinal(st, place, kind)
                   [] ord = "Suffix" -> JoinSuffixLoop(st, related, related, place, kind)
                   [] ord = "Both" -> JoinBoth(st, related, place, kind)
                   [] OTHER -> Failed(st)),
             Tail(rest), related, place, kind)

\* The loop `for (&place, &kind) in &**other`
RECURSIVE JoinOtherLoop(_, _, _, _)
JoinOtherLoop(st, order, other, pref) ==
    IF order = <<>> \/ st.panicked THEN st
    ELSE JoinOtherLoop(
             Let(Head(order), LAMBDA place :
             Let(find_all_related(st.caps, place, pref), LAMBDA related :
                 JoinRelatedLoop(st, related, related, place, other[place]))),
             Tail(order), other, pref)

\* CapabilityProjections::join
CapabilityProjections_join(self, other, pref) ==
    IF DOMAIN self = {}
    THEN [caps |-> other, changed |-> TRUE, panicked |-> FALSE]
    ELSE JoinOtherLoop([caps |-> self, changed |-> FALSE, panicked |-> FALSE],
                       IterOrder(DOMAIN other, pref.other), other, pref)

\* CapabilityLocal: Unallocated, or Allocated with the projections
Unallocated == [allocated |-> FALSE, places |-> EmptyCaps]

Allocated(caps) == [allocated |-> TRUE, places |-> caps]

\* CapabilityLocal::join that lets an Unallocated receiver take the donor
CapabilityLocal_join_takes_allocated(self, other, pref) ==
    CASE ~self.allocated /\ ~other.allocated ->
            [local |-> self, changed |-> FALSE, panicked |-> FALSE]
      [] self.allocated /\ other.allocated ->
            Let(CapabilityProjections_join(self.places, other.places, pref), LAMBDA r :
                [local |-> Allocated(r.caps), changed |-> r.changed,
                 panicked |-> r.panicked])
      [] self.allocated /\ ~other.allocated ->
            [local |-> Unallocated, changed |-> TRUE, panicked |-> FALSE]
      [] ~self.allocated /\ other.allocated ->
            [local |-> other, changed |-> TRUE, panicked |-> FALSE]

\* CapabilityLocal::join: (receiver after the join, changed, failed)
CapabilityLocal_join(self, other, pref) ==
    CASE ~self.allocated /\ ~other.allocated ->
            [local |-> self, changed |-> FALSE, panicked |-> FALSE]
      [] self.allocated /\ other.allocated ->
            Let(CapabilityProjections_join(self.places, other.places, pref), LAMBDA r :
                [local |-> Allocated(r.caps), changed |-> r.changed,
                 panicked |-> r.panicked])
      [] self.allocated /\ ~other.allocated ->
            [local |-> Unallocated, changed |-> TRUE, panicked |-> FALSE]
      [] ~self.allocated /\ other.allocated ->
            [local |-> self, changed |-> FALSE, panicked |-> FALSE]

\* CapabilitySummary::join: the join of every local, changed if any changed
CapabilitySummary_join(self, other, pref) ==
    Let([l \in DOMAIN self |-> CapabilityLocal_join(self[l], other[l], pref)], LAMBDA r :
        [summary |-> [l \in DOMAIN self |-> r[l].local],
         changed |-> \E l \in DOMAIN self : r[l].changed,
         panicked |-> \E l \in DOMAIN self : r[l].panicked])

\* The joins into one receiver of a run
MaxJoins == 2

\* The locals the runs of joins are made for: the struct, the reference and
\* the array
ClLocals == {1, 3, 5}

(***************************************************************************)
(* PlaceCapabilities: the flat map from places to capabilities.            *)
(***************************************************************************)
NumCapPlaces == 2

\* The places the capability maps are drawn over: a local and its fields
CapPlaces == {LocalPlace(1)} \cup {Place(1, <<Field(i)>>) : i \in 0..(NumCapPlaces - 2)}

PlaceCapabilities == UNION {[K -> CapabilityKind] : K \in SUBSET CapPlaces}

\* The body of the loop of join with the stored capability replaced by the
\* donor's instead of the minimum
PlaceCapabilities_join_place_overwrites(st, place, other_capability) ==
    IF place \in DOMAIN st.caps
    THEN [caps |-> update_cap(st.caps, place, other_capability),
          changed |-> st.changed \/ st.caps[place] # other_capability]
    ELSE [caps |-> update_cap(st.caps, place, other_capability), changed |-> TRUE]

\* The body of the loop of join with the two branches on the minimum swapped
PlaceCapabilities_join_place_swapped(st, place, other_capability) ==
    IF place \in DOMAIN st.caps
    THEN LET c == minimum(st.caps[place], other_capability) IN
         IF c = NoCapability
         THEN [caps |-> update_cap(st.caps, place, other_capability),
               changed |-> st.changed \/ st.caps[place] # other_capability]
         ELSE [caps |-> RemoveKeys(st.caps, {place}), changed |-> TRUE]
    ELSE [caps |-> update_cap(st.caps, place, other_capability), changed |-> TRUE]

\* The body of the loop of join, for one (place, other_capability) of other
PlaceCapabilities_join_place(st, place, other_capability) ==
    IF place \in DOMAIN st.caps
    THEN LET c == minimum(st.caps[place], other_capability) IN
         IF c # NoCapability
         THEN [caps |-> update_cap(st.caps, place, c),
               changed |-> st.changed \/ st.caps[place] # c]
         ELSE [caps |-> RemoveKeys(st.caps, {place}), changed |-> TRUE]
    ELSE [caps |-> update_cap(st.caps, place, other_capability), changed |-> TRUE]

RECURSIVE PlaceCapabilities_join_loop(_, _, _)
PlaceCapabilities_join_loop(st, rest, other) ==
    IF rest = <<>> THEN st
    ELSE PlaceCapabilities_join_loop(
             PlaceCapabilities_join_place(st, Head(rest), other[Head(rest)]),
             Tail(rest), other)

\* self.join(other): the receiver after the call and the value returned
PlaceCapabilities_join(self, other, reversed) ==
    PlaceCapabilities_join_loop([caps |-> self, changed |-> FALSE],
                                IterOrder(DOMAIN other, reversed), other)

(***************************************************************************)
(* BorrowsDomain: the borrow graph of a block, a map from the edges it     *)
(* holds to the path conditions of each.                                   *)
(***************************************************************************)
PathCondition(from, to) == <<from, to>>

EmptyGraph == [e \in {} |-> {}]

\* BorrowsState::add_path_condition: the condition is added to every edge
add_path_condition(graph, pc) == [e \in DOMAIN graph |-> graph[e] \cup {pc}]

\* BorrowsState::join, the overlay of two graphs: an edge that only other
\* holds is taken with its path conditions, an edge both hold stays as the
\* receiver holds it
BorrowsState_join(self, other) ==
    LET joined == [e \in DOMAIN self \cup DOMAIN other |->
                      IF e \in DOMAIN self THEN self[e] ELSE other[e]]
    IN [graph |-> joined, changed |-> DOMAIN joined # DOMAIN self]

\* BorrowsDomain::join of the domain of block self_block with the domain of
\* block other_block
BorrowsDomain_join(self, other, self_block, other_block) ==
    LET pc == PathCondition(other_block, self_block)
        other_after == add_path_condition(other, pc)
    IN BorrowsState_join(self, other_after)

(***************************************************************************)
(* Function calls: the types of a signature, their lifetimes, and the      *)
(* construction of the abstraction of a call.                              *)
(***************************************************************************)
MaxArgs == 2

Regions == {"'a", "'b", "'c"}

NoRegion == "none"

\* The types of a signature: i32, a struct with one lifetime parameter, and
\* shared and mutable references to either
TyI32 == [kind |-> "Int", region |-> NoRegion, is_mut |-> FALSE, inner |-> "Int", inner_region |-> NoRegion]

TyAdt(r) == [kind |-> "Adt", region |-> r, is_mut |-> FALSE, inner |-> "Int", inner_region |-> NoRegion]

TyRef(r, m, ty) == [kind |-> "Ref", region |-> r, is_mut |-> m, inner |-> ty.kind, inner_region |-> ty.region]

SigTys ==
    {TyI32} \cup {TyAdt(r) : r \in Regions}
        \cup {TyRef(r, m, ty) : r \in Regions, m \in BOOLEAN,
                                ty \in {TyI32} \cup {TyAdt(q) : q \in Regions}}

\* The type a reference type refers to
RefInner(ty) == IF ty.inner = "Adt" THEN TyAdt(ty.inner_region) ELSE TyI32

\* extract_lifetimes: the regions of a type, in the order they are visited
extract_lifetimes(ty) ==
    CASE ty.kind = "Int" -> <<>>
      [] ty.kind = "Adt" -> <<ty.region>>
      [] ty.kind = "Ref" ->
            <<ty.region>> \o (IF ty.inner = "Adt" THEN <<ty.inner_region>> ELSE <<>>)

\* outlives_in_param_env: the lifetimes are the same, or a caller bound
\* says that the input lifetime outlives the output lifetime
outlives_in_param_env(input_lifetime, output_lifetime, param_env) ==
    \/ input_lifetime = output_lifetime
    \/ <<input_lifetime, output_lifetime>> \in param_env

AbstractionTarget_Place(place) == [kind |-> "Place", place |-> place, index |-> 0]

AbstractionTarget_RegionProjection(place, idx) ==
    [kind |-> "RegionProjection", place |-> place, index |-> idx]

\* matches_for_input_lifetime that goes on with the reference type itself
\* instead of the type it refers to
matches_for_input_lifetime_keeps_ref(input_lifetime, param_env, output_ty, output_place) ==
    LET is_mut_ref == output_ty.kind = "Ref" /\ output_ty.is_mut
        first == IF is_mut_ref
                    /\ outlives_in_param_env(input_lifetime, output_ty.region, param_env)
                 THEN <<AbstractionTarget_Place(mk_deref(output_place))>>
                 ELSE <<>>
        lifetimes == extract_lifetimes(output_ty)
        matching == SelectSeq([i \in 1..Len(lifetimes) |-> i],
                        LAMBDA i : outlives_in_param_env(input_lifetime, lifetimes[i], param_env))
    IN first \o [j \in 1..Len(matching) |->
                    AbstractionTarget_RegionProjection(output_place, matching[j] - 1)]

\* matches_for_input_lifetime: the targets in the output that the input
\* lifetime outlives
matches_for_input_lifetime(input_lifetime, param_env, output_ty, output_place) ==
    LET is_mut_ref == output_ty.kind = "Ref" /\ output_ty.is_mut
        first == IF is_mut_ref
                    /\ outlives_in_param_env(input_lifetime, output_ty.region, param_env)
                 THEN <<AbstractionTarget_Place(mk_deref(output_place))>>
                 ELSE <<>>
        ty == IF is_mut_ref THEN RefInner(output_ty) ELSE output_ty
        lifetimes == extract_lifetimes(ty)
        matching == SelectSeq([i \in 1..Len(lifetimes) |-> i],
                        LAMBDA i : outlives_in_param_env(input_lifetime, lifetimes[i], param_env))
    IN first \o [j \in 1..Len(matching) |->
                    AbstractionTarget_RegionProjection(output_place, matching[j] - 1)]

AbstractionBlockEdge(inputs, outputs) == [inputs |-> inputs, outputs |-> outputs]

\* The edges the loop of construct_region_abstraction_if_necessary pushes
\* for the input idx (counted from 0) of type ty
InputEdges(idx, ty, arg, param_env, output_ty, destination) ==
    LET input_place == arg.place
        is_ref == ty.kind = "Ref"
        place_edges ==
            IF is_ref /\ ty.is_mut
            THEN LET outs == matches_for_input_lifetime(ty.region, param_env, output_ty, destination)
                 IN [j \in 1..Len(outs) |->
                       <<idx, AbstractionBlockEdge({AbstractionTarget_Place(mk_deref(input_place))},
                                                   {outs[j]})>>]
            ELSE <<>>
        ty1 == IF is_ref THEN RefInner(ty) ELSE ty
        lifetimes == extract_lifetimes(ty1)
        RECURSIVE region_edges(_)
        region_edges(lifetime_idx) ==
            IF lifetime_idx > Len(lifetimes) THEN <<>>
            ELSE LET outs == matches_for_input_lifetime(lifetimes[lifetime_idx], param_env,
                                                        output_ty, destination)
                 IN [j \in 1..Len(outs) |->
                       <<idx, AbstractionBlockEdge(
                                  {AbstractionTarget_RegionProjection(input_place, lifetime_idx - 1)},
                                  {outs[j]})>>]
                    \o region_edges(lifetime_idx + 1)
    IN place_edges \o region_edges(1)

\* The edges of a call with every operand taken for a place
RECURSIVE CallEdges(_, _, _, _, _, _)

CallEdges_every_operand(idx, inputs, args, param_env, output_ty, destination) ==
    IF idx > Len(inputs) THEN <<>>
    ELSE InputEdges(idx - 1, inputs[idx], args[idx], param_env, output_ty, destination)
            \o CallEdges(idx + 1, inputs, args, param_env, output_ty, destination)

\* The edges of a call: the loop over the inputs of the signature, from
\* the input idx (counted from 1) on
CallEdges(idx, inputs, args, param_env, output_ty, destination) ==
    IF idx > Len(inputs) THEN <<>>
    ELSE (IF args[idx].is_place
          THEN InputEdges(idx - 1, inputs[idx], args[idx], param_env, output_ty, destination)
          ELSE <<>>)
            \o CallEdges(idx + 1, inputs, args, param_env, output_ty, destination)

\* construct_region_abstraction_if_necessary: the borrow graph after the
\* call, graph being the set of abstraction edges it holds
construct_region_abstraction_if_necessary(graph, inputs, args, param_env, output_ty, destination, location) ==
    LET output_lifetimes == extract_lifetimes(output_ty) IN
    IF output_lifetimes = <<>> THEN graph
    ELSE LET edges == CallEdges(1, inputs, args, param_env, output_ty, destination) IN
         IF edges # <<>>
         THEN graph \cup {[kind |-> "FunctionCall", location |-> location, edges |-> edges]}
         ELSE graph

(***************************************************************************)
(* BorrowsVisitor::outlives: the search through the outlives constraints   *)
(* of the region inference context.                                        *)
(***************************************************************************)
MaxRegionVid == 2

MaxConstraints == 3

RegionVids == 0..MaxRegionVid

\* An outlives constraint sup: sub
OutlivesConstraint(sup, sub) == [sup |-> sup, sub |-> sub]

\* The constraints of a region inference context, in the order
\* outlives_constraints() yields them
ConstraintLists ==
    UNION {[1..n -> {OutlivesConstraint(a, b) : a, b \in RegionVids}] : n \in 0..MaxConstraints}

\* The regions the loop pushes for current, with the constraints followed
\* from their sub to their sup
outlives_pushed_backwards(constraints, current) ==
    LET matching == SelectSeq(constraints, LAMBDA o : o.sub = current)
    IN [i \in 1..Len(matching) |-> matching[i].sup]

\* The regions the loop pushes for current: the sub of every constraint
\* whose sup is current
outlives_pushed(constraints, current) ==
    LET matching == SelectSeq(constraints, LAMBDA o : o.sup = current)
    IN [i \in 1..Len(matching) |-> matching[i].sub]

(***************************************************************************)
(* The coupling graph constructor.  A graph is the set of its edges        *)
(* <<from, to>>; its nodes are the ends of its edges.  The nodes are       *)
(* region projections: each has a place, old or not, and a region, live    *)
(* at the start of the block or not.                                       *)
(***************************************************************************)
NumCgNodes == 3

CgNodes == 1..NumCgNodes

\* The region projection graphs of a borrows graph: the edges between
\* different region projections
RegionProjectionGraphs == SUBSET {e \in CgNodes \X CgNodes : e[1] # e[2]}

\* coupling::Graph::new
Graph_new == {}

GraphNodes(g) == {e[1] : e \in g} \cup {e[2] : e \in g}

\* coupling::Graph::add_edge
add_edge(g, from, to) == g \cup {<<from, to>>}

\* coupling::Graph::nodes_pointing_to
nodes_pointing_to(g, node) == {e[1] : e \in {d \in g : d[2] = node}}

\* coupling::Graph::leaf_nodes: the nodes that point to no node
leaf_nodes(g) == {n \in GraphNodes(g) : \A e \in g : e[1] # n}

\* CouplingGraphConstructor::new that does not look at dump_enabled
CouplingGraphConstructor_new_unchecked(dump_enabled) == "constructed"

\* CouplingGraphConstructor::new: the assertion on dump_enabled
CouplingGraphConstructor_new(dump_enabled) ==
    IF dump_enabled THEN "constructed" ELSE "panicked"

\* The test of add_edges_from that walks through every node, live or not
walked_through_always(node, is_old, live_origins) ==
    is_old[node] \/ node \notin live_origins \/ node \in live_origins

\* The test of add_edges_from on a node pointing to the candidate: the node
\* is walked through when its place is old or its region is not live
walked_through(node, is_old, live_origins) == is_old[node] \/ node \notin live_origins

\* A call add_edges_from(bg, bottom_connect, upper_candidate) up to its
\* loop: the nodes pointing to the candidate are looked up, the candidate is
\* connected to the bottom if there are none, and the frame of the call is
\* pushed.  A call with the arguments of a call that is still active repeats
\* it, and so on without end, until the call stack overflows.
add_edges_from(st, bg, bottom_connect, upper_candidate) ==
    Let(nodes_pointing_to(bg, upper_candidate), LAMBDA nodes :
        [coupling_graph |-> IF nodes = {}
                            THEN add_edge(st.coupling_graph, upper_candidate, bottom_connect)
                            ELSE st.coupling_graph,
         stack |-> Append(st.stack, [bottom_connect |-> bottom_connect,
                                     upper_candidate |-> upper_candidate,
                                     nodes |-> SeqOfSet(nodes)]),
         overflow |-> \E i \in 1..Len(st.stack) :
                         /\ st.stack[i].bottom_connect = bottom_connect
                         /\ st.stack[i].upper_candidate = upper_candidate])

(***************************************************************************)
(* The effects of an instruction on a BorrowsDomain.  A visitor pass works *)
(* on the field after of the domain and leaves it at some state; the       *)
(* engine runs the preparing pass and the applying pass of a phase and     *)
(* keeps copies of after.  An effect returns the domain and, for each of   *)
(* its two passes, the state the pass started from and the state it left.  *)
(***************************************************************************)
\* A pass of the BorrowsVisitor over the instruction: after goes to left
BorrowsVisitor_visit(domain, left) == [domain EXCEPT !.after = left]

PassRecord(from, to) == [from |-> from.after, to |-> to.after]

\* apply_statement_effect that copies after into start before the preparing
\* pass has run
apply_effect_early_start(domain, prepared, applied) ==
    LET d1 == [domain EXCEPT !.start = domain.after]
        d2 == BorrowsVisitor_visit(d1, prepared)
        d3 == BorrowsVisitor_visit(d2, applied)
    IN [domain |-> d3, passes |-> <<PassRecord(d1, d2), PassRecord(d2, d3)>>]

\* apply_before_statement_effect / apply_before_terminator_effect
apply_before_effect(domain, prepared, applied) ==
    LET d1 == BorrowsVisitor_visit(domain, prepared)
        d2 == [d1 EXCEPT !.before_start = d1.after]
        d3 == BorrowsVisitor_visit(d2, applied)
        d4 == [d3 EXCEPT !.before_after = d3.after]
    IN [domain |-> d4, passes |-> <<PassRecord(domain, d1), PassRecord(d2, d3)>>]

\* apply_statement_effect / apply_terminator_effect
apply_effect(domain, prepared, applied) ==
    LET d1 == BorrowsVisitor_visit(domain, prepared)
        d2 == [d1 EXCEPT !.start = d1.after]
        d3 == BorrowsVisitor_visit(d2, applied)
    IN [domain |-> d3, passes |-> <<PassRecord(domain, d1), PassRecord(d2, d3)>>]

(***************************************************************************)
(* Validity checks.  The condition of a check is an expression the macro   *)
(* may evaluate more than once: cond is the sequence of the values of its  *)
(* successive evaluations.  A check returns the number of lines logged and *)
(* whether the analysis aborts.                                            *)
(***************************************************************************)
\* pcg_validity_assert that takes every mode for the fatal mode
pcg_validity_assert_always_fatal(validity_checks_enabled, validity_checks_warn_only, cond) ==
    IF validity_checks_enabled
    THEN [logged |-> IF ~cond[1] THEN 1 ELSE 0, aborted |-> ~cond[2]]
    ELSE [logged |-> 0, aborted |-> FALSE]

\* pcg_validity_assert!(cond)
pcg_validity_assert(validity_checks_enabled, validity_checks_warn_only, cond) ==
    IF validity_checks_enabled
    THEN IF validity_checks_warn_only
         THEN [logged |-> IF ~cond[1] THEN 1 ELSE 0, aborted |-> FALSE]
         ELSE [logged |-> IF ~cond[1] THEN 1 ELSE 0, aborted |-> ~cond[2]]
    ELSE [logged |-> 0, aborted |-> FALSE]

\* The sets a collapse of the place self is called on: the places of an
\* unrolling of self, all of them or all but one
CollapseSets(self) ==
    UNION {{F} \cup {F \ {p} : p \in F} : F \in Frontiers(self)}

(***************************************************************************)
(* run_pcg and the recording flag RECORD_PCG, a boolean behind a mutex     *)
(* shared by every invocation of the process.                              *)
(***************************************************************************)
NumThreads == 2

MaxRuns == 2

MaxFixpointSteps == 2

Threads == 1..NumThreads

NoThread == 0

(***************************************************************************)
(* The actions of the log.  Weaken { place, from, to }: the capability of  *)
(* place goes from `from` to `to`; to = NoCapability removes it.           *)
(***************************************************************************)
MaxActions == 2

\* Weaken::new: the check of from > to is commented out
Weaken_new(place, from, to) == [place |-> place, from |-> from, to |-> to]

(***************************************************************************)
(* The BorrowsVisitor.  A place of the visited instruction is a local with *)
(* what the visitor asks of it: its type, whether it is owned, and whether *)
(* it is the dereference of the local.  The BorrowsState the visitor works *)
(* on (self.state.after) is the sequence of the operations applied to it.  *)
(***************************************************************************)
BvTys == {"i32", "&i32", "&mut i32", "S<'a>"}

BvPlaces(locals) == [local : locals, ty : BvTys, is_owned : BOOLEAN, deref : {FALSE}]

NoBvPlace == [local |-> 0, ty |-> "i32", is_owned |-> TRUE, deref |-> FALSE]

project_deref(place) == [place EXCEPT !.deref = TRUE]

\* Place::region_projections: one projection for the one region of the type
region_projections(place) == IF place.ty = "i32" THEN <<>> ELSE <<place>>

\* Operands: Copy(place), Move(place) of a place of the local 2, or a constant
Operands_of(locals) ==
    [kind : {"Copy", "Move"}, place : BvPlaces(locals)]
        \cup {[kind |-> "Constant", place |-> NoBvPlace]}

BvOperands == Operands_of({2})

Rvalue(kind, agg, operands, place, is_mut) ==
    [kind |-> kind, agg |-> agg, operands |-> operands, place |-> place, is_mut |-> is_mut]

NoRvalue == Rvalue("none", "none", <<>>, NoBvPlace, FALSE)

OperandLists == UNION {[1..n -> BvOperands] : n \in 0..MaxArgs}

\* The rvalues of mir::Rvalue; WrapUnsafeBinder stands for the kinds that
\* visit_rvalue does not list
Rvalues ==
    {Rvalue(k, "none", <<o>>, NoBvPlace, FALSE) :
        k \in {"Use", "Repeat", "Cast", "UnaryOp", "ShallowInitBox", "WrapUnsafeBinder"},
        o \in BvOperands}
    \cup {Rvalue("BinaryOp", "none", <<o, [kind |-> "Constant", place |-> NoBvPlace]>>,
                 NoBvPlace, FALSE) : o \in BvOperands}
    \cup {Rvalue(k, "none", <<>>, NoBvPlace, FALSE) : k \in {"ThreadLocalRef", "NullaryOp"}}
    \cup {Rvalue("Ref", "none", <<>>, p, m) : p \in BvPlaces({2}), m \in BOOLEAN}
    \cup {Rvalue(k, "none", <<>>, p, FALSE) :
            k \in {"RawPtr", "Len", "Discriminant", "CopyForDeref"}, p \in BvPlaces({2})}
    \cup {Rvalue("Aggregate", a, os, NoBvPlace, FALSE) :
            a \in {"Adt", "Tuple", "Array"}, os \in OperandLists}

Instruction(instr, kind, target, rvalue, place, args) ==
    [instr |-> instr, kind |-> kind, target |-> target, rvalue |-> rvalue,
     place |-> place, args |-> args]

\* Statements and terminators: the target of an assignment and the
\* destination of a call are places of the local 1
Instructions ==
    {Instruction("statement", "Assign", t, rv, NoBvPlace, <<>>) :
        t \in BvPlaces({1}), rv \in Rvalues}
    \cup {Instruction("statement", "FakeRead", NoBvPlace, NoRvalue, p, <<>>) :
            p \in BvPlaces({2})}
    \cup {Instruction("statement", "StorageDead", NoBvPlace, NoRvalue, p, <<>>) :
            p \in {q \in BvPlaces({1, 2}) : q.is_owned}}
    \cup {Instruction("statement", "Nop", NoBvPlace, NoRvalue, NoBvPlace, <<>>)}
    \cup {Instruction("terminator", "Call", t, NoRvalue, NoBvPlace, os) :
            t \in BvPlaces({1}), os \in OperandLists}
    \cup {Instruction("terminator", "Goto", NoBvPlace, NoRvalue, NoBvPlace, <<>>)}

\* BorrowsVisitor::new
BorrowsVisitor_new(after, before, preparing) ==
    [after |-> after, before |-> before, preparing |-> preparing, panicked |-> FALSE]

\* A method of BorrowsState called on self.state.after
apply(self, op, place) ==
    [self EXCEPT !.after = Append(@, [op |-> op, place |-> place])]

visit_operand(self, operand) ==
    IF self.before /\ self.preparing /\ operand.kind # "Constant"
    THEN LET expanded == apply(self, "ensure_expansion_to_exactly", operand.place) IN
         IF operand.kind = "Move"
         THEN apply(apply(expanded, "set_latest", operand.place),
                    "make_place_old", operand.place)
         ELSE expanded
    ELSE self

RECURSIVE visit_operands(_, _)
visit_operands(self, operands) ==
    IF operands = <<>> THEN self
    ELSE visit_operands(visit_operand(self, Head(operands)), Tail(operands))

visit_rvalue(self, rvalue) ==
    Let(visit_operands(self, rvalue.operands), LAMBDA s :
        CASE rvalue.kind \in {"Use", "Repeat", "ThreadLocalRef", "Cast", "BinaryOp",
                              "NullaryOp", "UnaryOp", "Aggregate", "ShallowInitBox"} -> s
          [] rvalue.kind \in {"Ref", "RawPtr", "Len", "Discriminant", "CopyForDeref"} ->
                IF s.before /\ s.preparing /\ ~rvalue.place.is_owned
                THEN apply(s, "ensure_expansion_to_exactly", rvalue.place)
                ELSE s
          [] OTHER -> [s EXCEPT !.panicked = TRUE])

\* The loop over the fields of an aggregate in the applying pass
RECURSIVE visit_fields(_, _, _)
visit_fields(self, target, fields) ==
    IF fields = <<>> THEN self
    ELSE Let(Head(fields), LAMBDA field :
            visit_fields(
                IF field.kind # "Constant" /\ field.place.ty \in {"&i32", "&mut i32"}
                      /\ region_projections(target) # <<>>
                THEN apply(self, "add_region_projection_member", project_deref(field.place))
                ELSE self,
                target, Tail(fields)))

\* The match on the rvalue of an assignment in the applying pass
apply_rvalue(self, target, rvalue) ==
    CASE rvalue.kind = "Aggregate" /\ rvalue.agg \in {"Adt", "Tuple"} ->
            visit_fields(self, target, rvalue.operands)
      [] rvalue.kind = "Use" /\ rvalue.operands[1].kind = "Move" ->
            Let(rvalue.operands[1].place, LAMBDA from :
                Let(IF from.ty = "&mut i32"
                    THEN apply(self, "change_pcs_elem", project_deref(from)) ELSE self,
                    LAMBDA s1 :
                        apply(IF region_projections(from) # <<>>
                              THEN apply(s1, "change_pcs_elem", from) ELSE s1,
                              "delete_descendants_of", from)))
      [] rvalue.kind = "Use" /\ rvalue.operands[1].kind = "Copy" ->
            IF rvalue.operands[1].place.ty \in {"&i32", "&mut i32"}
            THEN apply(self, "add_reborrow", project_deref(rvalue.operands[1].place))
            ELSE self
      [] rvalue.kind = "Ref" -> apply(self, "add_reborrow", rvalue.place)
      [] OTHER -> self

\* visit_statement: minimize, super_statement, then the blocks of the passes
visit_statement(self, statement) ==
    Let(IF self.preparing /\ self.before THEN apply(self, "minimize", NoBvPlace) ELSE self,
        LAMBDA s0 :
    Let(IF statement.kind = "Assign" THEN visit_rvalue(s0, statement.rvalue) ELSE s0,
        LAMBDA s1 :
    IF s1.panicked THEN s1 ELSE
    Let(IF ~(self.preparing /\ self.before) THEN s1
        ELSE CASE statement.kind = "Assign" /\ statement.target.ty \in {"&i32", "&mut i32"} ->
                    apply(s1, "make_place_old", statement.target)
               [] statement.kind = "FakeRead" /\ ~statement.place.is_owned ->
                    apply(s1, "ensure_expansion_to_exactly",
                          IF statement.place.ty \in {"&i32", "&mut i32"}
                          THEN project_deref(statement.place) ELSE statement.place)
               [] OTHER -> s1,
        LAMBDA s2 :
    Let(IF ~(self.preparing /\ ~self.before) THEN s2
        ELSE CASE statement.kind = "StorageDead" ->
                    apply(apply(s2, "make_place_old", statement.place),
                          "trim_old_leaves", NoBvPlace)
               [] statement.kind = "Assign" /\ ~statement.target.is_owned ->
                    apply(s2, "ensure_expansion_to_exactly", statement.target)
               [] OTHER -> s2,
        LAMBDA s3 :
    IF ~(~self.preparing /\ ~self.before) THEN s3
    ELSE apply(IF statement.kind = "Assign"
               THEN apply_rvalue(apply(s3, "set_latest", statement.target),
                                 statement.target, statement.rvalue)
               ELSE s3,
               "trim_old_leaves", NoBvPlace)))))

\* visit_terminator that applies the effect of a call in both applying
\* passes
visit_terminator_any_applying_pass(self, terminator) ==
    Let(IF self.preparing /\ self.before THEN apply(self, "minimize", NoBvPlace) ELSE self,
        LAMBDA s0 :
    Let(IF terminator.kind = "Call" THEN visit_operands(s0, terminator.args) ELSE s0,
        LAMBDA s1 :
    IF ~self.preparing /\ terminator.kind = "Call"
    THEN apply(apply(s1, "set_latest", terminator.target),
               "construct_region_abstraction_if_necessary", terminator.target)
    ELSE s1))

\* visit_terminator: minimize, super_terminator, then the effect of a call
visit_terminator(self, terminator) ==
    Let(IF self.preparing /\ self.before THEN apply(self, "minimize", NoBvPlace) ELSE self,
        LAMBDA s0 :
    Let(IF terminator.kind = "Call" THEN visit_operands(s0, terminator.args) ELSE s0,
        LAMBDA s1 :
    IF ~self.before /\ ~self.preparing /\ terminator.kind = "Call"
    THEN apply(apply(s1, "set_latest", terminator.target),
               "construct_region_abstraction_if_necessary", terminator.target)
    ELSE s1))

\* One pass over an instruction: BorrowsVisitor::preparing / applying, then
\* visit_statement or visit_terminator
visit(after, before, preparing, instruction) ==
    IF instruction.instr = "statement"
    THEN visit_statement(BorrowsVisitor_new(after, before, preparing), instruction)
    ELSE visit_terminator(BorrowsVisitor_new(after, before, preparing), instruction)

(***************************************************************************)
(* The state of the start block.  A reborrow is an edge of the borrows     *)
(* graph from the blocked place to the assigned place.                     *)
(***************************************************************************)
\* Location::START
Location_START == [block |-> 0, statement_index |-> 0]

\* MaybeRemotePlace::place_assigned_to_local
place_assigned_to_local(local) == [kind |-> "Remote", local |-> local]

Reborrow(blocked_place, assigned_place, mutability, location, region) ==
    [blocked_place |-> blocked_place, assigned_place |-> assigned_place,
     mutability |-> mutability, location |-> location, region |-> region]

\* BorrowsState::add_reborrow: the edge is added, without path conditions
add_reborrow(graph, blocked_place, assigned_place, mutability, location, region) ==
    Let(Reborrow(blocked_place, assigned_place, mutability, location, region), LAMBDA r :
        [e \in DOMAIN graph \cup {r} |-> IF e \in DOMAIN graph THEN graph[e] ELSE {}])

\* The loop of initialize_as_start_block from the argument arg on
RECURSIVE initialize_args_from(_, _, _)
initialize_args_from(after, arg_tys, arg) ==
    IF arg > Len(arg_tys) THEN after
    ELSE initialize_args_from(
            IF arg_tys[arg].kind = "Ref"
            THEN add_reborrow(after, place_assigned_to_local(arg), mk_deref(LocalPlace(arg)),
                              arg_tys[arg].is_mut, Location_START, arg_tys[arg].region)
            ELSE after,
            arg_tys, arg + 1)

\* initialize_as_start_block that gives every argument a reborrow
initialize_as_start_block_every_arg(domain, arg_tys) ==
    [domain EXCEPT !.after =
        initialize_args_from(@, [i \in 1..Len(arg_tys) |->
                                    [arg_tys[i] EXCEPT !.kind = "Ref"]], 1)]

\* BorrowsDomain::initialize_as_start_block; the arguments are the locals
\* 1..arg_count of the body
initialize_as_start_block(domain, arg_tys) ==
    [domain EXCEPT !.after = initialize_args_from(@, arg_tys, 1)]

(***************************************************************************)
(* Loops of the control-flow graph.  A graph is the set of its edges over  *)
(* the blocks 0..NumLoopBlocks-1; block 0 is the start block.              *)
(***************************************************************************)
NumLoopBlocks == 3

LoopBlocks == 0..(NumLoopBlocks - 1)

\* basic_blocks.predecessors()[bb]
predecessors(cfg, bb) == {e[1] : e \in {d \in cfg : d[2] = bb}}

\* The blocks from which a block of S is reached without entering avoid
RECURSIVE ReachingAvoiding(_, _, _)
ReachingAvoiding(cfg, S, avoid) ==
    Let(S \cup {e[1] : e \in {d \in cfg : d[2] \in S /\ d[1] # avoid}}, LAMBDA T :
        IF T = S THEN S ELSE ReachingAvoiding(cfg, T, avoid))

\* dominators().dominates(dom, node): every path from the start block to
\* node goes through dom
dominates(cfg, dom, node) == dom = node \/ 0 \notin ReachingAvoiding(cfg, {node}, dom)

\* PlaceRepacker::is_back_edge
is_back_edge(cfg, from, to) ==
    /\ dominates(cfg, to, from)
    /\ \E e \in cfg : e[1] = from /\ e[2] = to

(***************************************************************************)
(* State of the expand / collapse run.                                     *)
(***************************************************************************)
VARIABLES
    xc_pc,         \* "start", "expanded", "collapsed" or "panicked"
    xc_self,       \* the place expand and collapse are called on
    xc_to,         \* the place expanded to
    xc_expanded,   \* first component of the result of expand
    xc_place_set,  \* second component of the result of expand
    xc_from,       \* the from set handed to collapse, as collapse leaves it
    xc_collapsed   \* the result of collapse

xc_vars == <<xc_pc, xc_self, xc_to, xc_expanded, xc_place_set, xc_from, xc_collapsed>>

(***************************************************************************)
(* State of a pair of joins of capability summaries: a.join(b) and         *)
(* b.join(a) on summaries a and b that differ in the local jn_local.       *)
(***************************************************************************)
VARIABLES
    jn_pc,      \* "idle", "start", "ab" (a.join(b) done) or "done" (both done)
    jn_local,   \* the local whose state the two summaries are drawn for
    jn_a,       \* summary a: local -> CapabilityLocal
    jn_b,       \* summary b
    jn_ab,      \* a.join(b): receiver after the join, changed, failed
    jn_ba       \* b.join(a)

jn_vars == <<jn_pc, jn_local, jn_a, jn_b, jn_ab, jn_ba>>

(***************************************************************************)
(* State of the joins of capability maps: b and then c joined into a copy  *)
(* of a, and c and then b joined into another copy of a.                   *)
(***************************************************************************)
VARIABLES
    pc_pc,      \* "idle", "start", "ab", "abc", "ac" or "done"
    pc_a,       \* capability map a
    pc_b,       \* capability map b
    pc_c,       \* capability map c
    pc_ab,      \* a.join(b): receiver after the join and value returned
    pc_abc,     \* then .join(c)
    pc_ac,      \* a.join(c)
    pc_acb      \* then .join(b)

pc_vars == <<pc_pc, pc_a, pc_b, pc_c, pc_ab, pc_abc, pc_ac, pc_acb>>

(***************************************************************************)
(* State of the fixpoint computation over a control-flow graph.            *)
(***************************************************************************)
VARIABLES
    fx_pc,        \* "idle", "run" or "panicked"
    fx_kind,      \* the domain iterated: "summary", "caps" or "borrows"
    fx_cfg,       \* the edges of the control-flow graph
    fx_gen,       \* block -> the effect of the block on the state
    fx_entry,     \* block -> the entry state of the block
    fx_worklist,  \* the blocks to process
    fx_done       \* the blocks processed at least once

fx_vars == <<fx_pc, fx_kind, fx_cfg, fx_gen, fx_entry, fx_worklist, fx_done>>

(***************************************************************************)
(* State of a function call: its signature, its operands, and the          *)
(* abstraction edges of the borrow graph.                                  *)
(***************************************************************************)
VARIABLES
    ca_pc,         \* "idle", "start" or "done"
    ca_inputs,     \* the types of the inputs of the signature
    ca_args,       \* the operands: whether each is a place, and the place
    ca_output,     \* the type of the output of the signature
    ca_param_env,  \* the caller bounds: pairs <<r1, r2>> for r1: r2
    ca_graph       \* the abstraction edges of the borrow graph

ca_vars == <<ca_pc, ca_inputs, ca_args, ca_output, ca_param_env, ca_graph>>

VARIABLES
    ol_pc,          \* "idle", "loop" or "done"
    ol_constraints, \* the outlives constraints
    ol_sup,         \* the arguments of outlives
    ol_sub,
    ol_visited,     \* the set visited
    ol_stack,       \* the vector stack, its last element on top
    ol_result       \* the value returned

ol_vars == <<ol_pc, ol_constraints, ol_sup, ol_sub, ol_visited, ol_stack, ol_result>>

VARIABLES
    cg_pc,             \* "idle", "new", "panicked", "constructed", "walk",
                       \* "overflow" or "done"
    cg_dump_enabled,   \* polonius_output.dump_enabled
    cg_bg,             \* the region projection graph of the borrows graph
    cg_is_old,         \* for each node, whether its place is old
    cg_live_origins,   \* the nodes whose region is live at the start of the block
    cg_coupling_graph, \* self.coupling_graph
    cg_leaves,         \* the leaf nodes still to start from
    cg_stack           \* the active calls of add_edges_from, the last on top

cg_vars == <<cg_pc, cg_dump_enabled, cg_bg, cg_is_old, cg_live_origins, cg_coupling_graph, cg_leaves, cg_stack>>

VARIABLES
    en_pc,          \* "idle", "before", "main" or "done"
    en_instruction, \* "statement" or "terminator"
    en_state,       \* the BorrowsDomain: before_start, before_after, start, after
    en_passes       \* the passes run so far: where each started and what it left

en_vars == <<en_pc, en_instruction, en_state, en_passes>>

VARIABLES
    va_pc,        \* "idle", "start" or "done"
    va_enabled,   \* VALIDITY_CHECKS
    va_warn_only, \* VALIDITY_CHECKS_WARN_ONLY
    va_op,        \* "assert", "expand" or "collapse"
    va_cond,      \* the values of the condition of the assertion
    va_self,      \* the place expanded or collapsed
    va_to,        \* the target of the expansion
    va_from,      \* the set collapsed
    va_logged,    \* the number of lines logged with tracing::error!
    va_aborted    \* whether the operation has panicked

va_vars == <<va_pc, va_enabled, va_warn_only, va_op, va_cond, va_self, va_to, va_from, va_logged, va_aborted>>

VARIABLES
    rp_pc,         \* for each thread: "off", "idle", "lock_on", "fixpoint" or "lock_off"
    rp_record_pcg, \* the boolean of RECORD_PCG
    rp_mutex,      \* the thread that holds the mutex of RECORD_PCG, or NoThread
    rp_steps,      \* for each thread: the steps its fixpoint computation has made
    rp_runs        \* for each thread: the invocations of run_pcg that have returned

rp_vars == <<rp_pc, rp_record_pcg, rp_mutex, rp_steps, rp_runs>>

VARIABLES
    wk_actions   \* the Weaken actions constructed so far

wk_vars == <<wk_actions>>

VARIABLES
    bv_pc,          \* "idle", "before", "main", "done" or "panicked"
    bv_instruction, \* the statement or terminator visited
    bv_state,       \* the BorrowsDomain: before_start, before_after, start, after
    bv_passes       \* the passes that returned: where each started and what it left

bv_vars == <<bv_pc, bv_instruction, bv_state, bv_passes>>

VARIABLES
    sb_pc,       \* "idle", "new" or "initialized"
    sb_arg_tys,  \* the types of the arguments of the body
    sb_state     \* the BorrowsDomain of the start block

sb_vars == <<sb_pc, sb_arg_tys, sb_state>>

VARIABLES
    lb_pc,               \* "idle", "loop" or "done"
    lb_cfg,              \* the control-flow graph of the body
    lb_loop_header,
    lb_back_edge_source,
    lb_loop_blocks,      \* the BitSet of blocks
    lb_stack             \* the stack of the reverse traversal

lb_vars == <<lb_pc, lb_cfg, lb_loop_header, lb_back_edge_source, lb_loop_blocks, lb_stack>>

VARIABLES
    cl_pc,        \* "idle", "joining" or "panicked"
    cl_local,     \* the local the states are drawn for
    cl_receiver,  \* the CapabilityLocal that is joined into
    cl_before,    \* the receiver before the last join
    cl_donor,     \* the donor of the last join
    cl_changed,   \* the value the last join returned
    cl_joins      \* the joins made

cl_vars == <<cl_pc, cl_local, cl_receiver, cl_before, cl_donor, cl_changed, cl_joins>>

VARIABLES
    co_pc,         \* "idle", "start", "collapsed" or "panicked"
    co_self,       \* the place collapse is called on
    co_given,      \* the from set as it is handed to collapse
    co_from,       \* the from set as collapse leaves it
    co_collapsed   \* the steps collapse returns

co_vars == <<co_pc, co_self, co_given, co_from, co_collapsed>>

vars == <<xc_vars, jn_vars, pc_vars, fx_vars, ca_vars, ol_vars, cg_vars, en_vars, va_vars, rp_vars, wk_vars, bv_vars, sb_vars, lb_vars, cl_vars, co_vars>>

XcIdle ==
    /\ xc_pc = "idle"
    /\ xc_self = LocalPlace(1)
    /\ xc_to = LocalPlace(1)
    /\ xc_expanded = <<>>
    /\ xc_place_set = <<>>
    /\ xc_from = {}
    /\ xc_collapsed = <<>>

NoJoin == [summary |-> [l \in Locals |-> Unallocated], changed |-> FALSE, panicked |-> FALSE]

JnIdle ==
    /\ jn_pc = "idle"
    /\ jn_local = 1
    /\ jn_a = [l \in Locals |-> Unallocated]
    /\ jn_b = [l \in Locals |-> Unallocated]
    /\ jn_ab = NoJoin
    /\ jn_ba = NoJoin

NoMapJoin == [caps |-> EmptyCaps, changed |-> FALSE]

PcIdle ==
    /\ pc_pc = "idle"
    /\ pc_a = EmptyCaps
    /\ pc_b = EmptyCaps
    /\ pc_c = EmptyCaps
    /\ pc_ab = NoMapJoin
    /\ pc_abc = NoMapJoin
    /\ pc_ac = NoMapJoin
    /\ pc_acb = NoMapJoin

Blocks == 0..3

START_BLOCK == 0

FxIdle ==
    /\ fx_pc = "idle"
    /\ fx_kind = "summary"
    /\ fx_cfg = {}
    /\ fx_gen = [b \in Blocks |-> [keep |-> TRUE, state |-> Unallocated]]
    /\ fx_entry = [b \in Blocks |-> Unallocated]
    /\ fx_worklist = {}
    /\ fx_done = {}

CaIdle ==
    /\ ca_pc = "idle"
    /\ ca_inputs = <<>>
    /\ ca_args = <<>>
    /\ ca_output = TyI32
    /\ ca_param_env = {}
    /\ ca_graph = {}

OlIdle ==
    /\ ol_pc = "idle"
    /\ ol_constraints = <<>>
    /\ ol_sup = 0
    /\ ol_sub = 0
    /\ ol_visited = {}
    /\ ol_stack = <<>>
    /\ ol_result = FALSE

CgIdle ==
    /\ cg_pc = "idle"
    /\ cg_dump_enabled = FALSE
    /\ cg_bg = {}
    /\ cg_is_old = [n \in CgNodes |-> FALSE]
    /\ cg_live_origins = {}
    /\ cg_coupling_graph = {}
    /\ cg_leaves = <<>>
    /\ cg_stack = <<>>

EnIdle ==
    /\ en_pc = "idle"
    /\ en_instruction = "statement"
    /\ en_state = [before_start |-> EmptyGraph, before_after |-> EmptyGraph,
                   start |-> EmptyGraph, after |-> EmptyGraph]
    /\ en_passes = <<>>

VaIdle ==
    /\ va_pc = "idle"
    /\ va_enabled = FALSE
    /\ va_warn_only = FALSE
    /\ va_op = "assert"
    /\ va_cond = <<TRUE, TRUE>>
    /\ va_self = LocalPlace(1)
    /\ va_to = LocalPlace(1)
    /\ va_from = {}
    /\ va_logged = 0
    /\ va_aborted = FALSE

RpIdle ==
    /\ rp_pc = [t \in Threads |-> "off"]
    /\ rp_record_pcg = FALSE
    /\ rp_mutex = NoThread
    /\ rp_steps = [t \in Threads |-> 0]
    /\ rp_runs = [t \in Threads |-> 0]

WkIdle == wk_actions = <<>>

BvIdle ==
    /\ bv_pc = "idle"
    /\ bv_instruction = Instruction("statement", "Nop", NoBvPlace, NoRvalue, NoBvPlace, <<>>)
    /\ bv_state = [before_start |-> <<>>, before_after |-> <<>>, start |-> <<>>, after |-> <<>>]
    /\ bv_passes = <<>>

SbIdle ==
    /\ sb_pc = "idle"
    /\ sb_arg_tys = <<>>
    /\ sb_state = [before_start |-> EmptyGraph, before_after |-> EmptyGraph,
                   start |-> EmptyGraph, after |-> EmptyGraph]

LbIdle ==
    /\ lb_pc = "idle"
    /\ lb_cfg = {}
    /\ lb_loop_header = 0
    /\ lb_back_edge_source = 0
    /\ lb_loop_blocks = {}
    /\ lb_stack = <<>>

ClIdle ==
    /\ cl_pc = "idle"
    /\ cl_local = 1
    /\ cl_receiver = Unallocated
    /\ cl_before = Unallocated
    /\ cl_donor = Unallocated
    /\ cl_changed = FALSE
    /\ cl_joins = 0

CoIdle ==
    /\ co_pc = "idle"
    /\ co_self = LocalPlace(1)
    /\ co_given = {}
    /\ co_from = {}
    /\ co_collapsed = <<>>

xc_others == <<jn_vars, pc_vars, fx_vars, ca_vars, ol_vars, cg_vars, en_vars, va_vars, rp_vars, wk_vars, bv_vars, sb_vars, lb_vars, cl_vars, co_vars>>

jn_others == <<xc_vars, pc_vars, fx_vars, ca_vars, ol_vars, cg_vars, en_vars, va_vars, rp_vars, wk_vars, bv_vars, sb_vars, lb_vars, cl_vars, co_vars>>

pc_others == <<xc_vars, jn_vars, fx_vars, ca_vars, ol_vars, cg_vars, en_vars, va_vars, rp_vars, wk_vars, bv_vars, sb_vars, lb_vars, cl_vars, co_vars>>

fx_others == <<xc_vars, jn_vars, pc_vars, ca_vars, ol_vars, cg_vars, en_vars, va_vars, rp_vars, wk_vars, bv_vars, sb_vars, lb_vars, cl_vars, co_vars>>

ca_others == <<xc_vars, jn_vars, pc_vars, fx_vars, ol_vars, cg_vars, en_vars, va_vars, rp_vars, wk_vars, bv_vars, sb_vars, lb_vars, cl_vars, co_vars>>

ol_others == <<xc_vars, jn_vars, pc_vars, fx_vars, ca_vars, cg_vars, en_vars, va_vars, rp_vars, wk_vars, bv_vars, sb_vars, lb_vars, cl_vars, co_vars>>

cg_others == <<xc_vars, jn_vars, pc_vars, fx_vars, ca_vars, ol_vars, en_vars, va_vars, rp_vars, wk_vars, bv_vars, sb_vars, lb_vars, cl_vars, co_vars>>

en_others == <<xc_vars, jn_vars, pc_vars, fx_vars, ca_vars, ol_vars, cg_vars, va_vars, rp_vars, wk_vars, bv_vars, sb_vars, lb_vars, cl_vars, co_vars>>

va_others == <<xc_vars, jn_vars, pc_vars, fx_vars, ca_vars, ol_vars, cg_vars, en_vars, rp_vars, wk_vars, bv_vars, sb_vars, lb_vars, cl_vars, co_vars>>

rp_others == <<xc_vars, jn_vars, pc_vars, fx_vars, ca_vars, ol_vars, cg_vars, en_vars, va_vars, wk_vars, bv_vars, sb_vars, lb_vars, cl_vars, co_vars>>

wk_others == <<xc_vars, jn_vars, pc_vars, fx_vars, ca_vars, ol_vars, cg_vars, en_vars, va_vars, rp_vars, bv_vars, sb_vars, lb_vars, cl_vars, co_vars>>

bv_others == <<xc_vars, jn_vars, pc_vars, fx_vars, ca_vars, ol_vars, cg_vars, en_vars, va_vars, rp_vars, wk_vars, sb_vars, lb_vars, cl_vars, co_vars>>

sb_others == <<xc_vars, jn_vars, pc_vars, fx_vars, ca_vars, ol_vars, cg_vars, en_vars, va_vars, rp_vars, wk_vars, bv_vars, lb_vars, cl_vars, co_vars>>

lb_others == <<xc_vars, jn_vars, pc_vars, fx_vars, ca_vars, ol_vars, cg_vars, en_vars, va_vars, rp_vars, wk_vars, bv_vars, sb_vars, cl_vars, co_vars>>

cl_others == <<xc_vars, jn_vars, pc_vars, fx_vars, ca_vars, ol_vars, cg_vars, en_vars, va_vars, rp_vars, wk_vars, bv_vars, sb_vars, lb_vars, co_vars>>

co_others == <<xc_vars, jn_vars, pc_vars, fx_vars, ca_vars, ol_vars, cg_vars, en_vars, va_vars, rp_vars, wk_vars, bv_vars, sb_vars, lb_vars, cl_vars>>

XcInit ==
    /\ JnIdle /\ PcIdle /\ FxIdle /\ CaIdle /\ OlIdle /\ CgIdle /\ EnIdle /\ VaIdle /\ RpIdle /\ WkIdle /\ BvIdle /\ SbIdle /\ LbIdle /\ ClIdle /\ CoIdle
    /\ xc_pc = "start"
    /\ xc_self \in AllPlaces
    /\ xc_to \in {q \in AllPlaces : q.local = xc_self.local}
    /\ xc_expanded = <<>>
    /\ xc_place_set = <<>>
    /\ xc_from = {}
    /\ xc_collapsed = <<>>

\* self.expand(to, repacker)
Expand ==
    /\ xc_pc = "start"
    /\ LET r == expand(xc_self, xc_to) IN
       /\ xc_pc' = IF r.panicked THEN "panicked" ELSE "expanded"
       /\ xc_expanded' = r.expanded
       /\ xc_place_set' = r.place_set
       /\ xc_from' = IF r.panicked THEN {} ELSE Range(r.place_set) \cup {xc_to}
    /\ UNCHANGED <<xc_self, xc_to, xc_collapsed, xc_others>>

\* self.collapse(&mut from, repacker) on the places the expansion produced
Collapse ==
    /\ xc_pc = "expanded"
    /\ \E r \in collapse(xc_self, xc_from) :
        /\ xc_pc' = IF r.panicked THEN "panicked" ELSE "collapsed"
        /\ xc_from' = r.from
        /\ xc_collapsed' = r.collapsed
    /\ UNCHANGED <<xc_self, xc_to, xc_expanded, xc_place_set, xc_others>>

XcNext == Expand \/ Collapse

SpecPlace == XcInit /\ [][XcNext]_vars

(***************************************************************************)
(* The joins of two capability summaries.                                  *)
(***************************************************************************)
\* The states of a local: Unallocated, the bottom (no place tracked), or a
\* frontier of the local with a capability for each of its places
LocalStates(l) ==
    {Unallocated, Allocated(EmptyCaps)}
        \cup UNION {{Allocated(c) : c \in [F -> CapabilityKind]} : F \in Frontiers(LocalPlace(l))}

AllLocalStates == [l \in Locals |-> LocalStates(l)]

\* The iteration preferences
Prefs == [other : BOOLEAN, self : BOOLEAN]

SummaryWith(l, s) == [k \in Locals |-> IF k = l THEN s ELSE Unallocated]

JnInit ==
    /\ XcIdle /\ PcIdle /\ FxIdle /\ CaIdle /\ OlIdle /\ CgIdle /\ EnIdle /\ VaIdle /\ RpIdle /\ WkIdle /\ BvIdle /\ SbIdle /\ LbIdle /\ ClIdle /\ CoIdle
    /\ jn_pc = "start"
    /\ jn_local \in Locals
    /\ jn_a \in {SummaryWith(jn_local, s) : s \in AllLocalStates[jn_local]}
    /\ jn_b \in {SummaryWith(jn_local, s) : s \in AllLocalStates[jn_local]}
    /\ jn_ab = NoJoin
    /\ jn_ba = NoJoin

\* a.join(&b, repacker) on a copy of a
JoinAB ==
    /\ jn_pc = "start"
    /\ \E pref \in Prefs : jn_ab' = CapabilitySummary_join(jn_a, jn_b, pref)
    /\ jn_pc' = "ab"
    /\ UNCHANGED <<jn_local, jn_a, jn_b, jn_ba, jn_others>>

\* b.join(&a, repacker) on a copy of b
JoinBA ==
    /\ jn_pc = "ab"
    /\ \E pref \in Prefs : jn_ba' = CapabilitySummary_join(jn_b, jn_a, pref)
    /\ jn_pc' = "done"
    /\ UNCHANGED <<jn_local, jn_a, jn_b, jn_ab, jn_others>>

JnNext == JoinAB \/ JoinBA

SpecJoin == JnInit /\ [][JnNext]_vars

(***************************************************************************)
(* The joins of capability maps.                                           *)
(***************************************************************************)
PcInit ==
    /\ XcIdle /\ JnIdle /\ FxIdle /\ CaIdle /\ OlIdle /\ CgIdle /\ EnIdle /\ VaIdle /\ RpIdle /\ WkIdle /\ BvIdle /\ SbIdle /\ LbIdle /\ ClIdle /\ CoIdle
    /\ pc_pc = "start"
    /\ pc_a \in PlaceCapabilities
    /\ pc_b \in PlaceCapabilities
    /\ pc_c \in PlaceCapabilities
    /\ pc_ab = NoMapJoin
    /\ pc_abc = NoMapJoin
    /\ pc_ac = NoMapJoin
    /\ pc_acb = NoMapJoin

\* a.join(&b) on a copy of a
PcJoinAB ==
    /\ pc_pc = "start"
    /\ \E reversed \in BOOLEAN : pc_ab' = PlaceCapabilities_join(pc_a, pc_b, reversed)
    /\ pc_pc' = "ab"
    /\ UNCHANGED <<pc_a, pc_b, pc_c, pc_abc, pc_ac, pc_acb, pc_others>>

\* .join(&c) on the receiver of a.join(&b)
PcJoinABC ==
    /\ pc_pc = "ab"
    /\ \E reversed \in BOOLEAN : pc_abc' = PlaceCapabilities_join(pc_ab.caps, pc_c, reversed)
    /\ pc_pc' = "abc"
    /\ UNCHANGED <<pc_a, pc_b, pc_c, pc_ab, pc_ac, pc_acb, pc_others>>

\* a.join(&c) on another copy of a
PcJoinAC ==
    /\ pc_pc = "abc"
    /\ \E reversed \in BOOLEAN : pc_ac' = PlaceCapabilities_join(pc_a, pc_c, reversed)
    /\ pc_pc' = "ac"
    /\ UNCHANGED <<pc_a, pc_b, pc_c, pc_ab, pc_abc, pc_acb, pc_others>>

\* .join(&b) on the receiver of a.join(&c)
PcJoinACB ==
    /\ pc_pc = "ac"
    /\ \E reversed \in BOOLEAN : pc_acb' = PlaceCapabilities_join(pc_ac.caps, pc_b, reversed)
    /\ pc_pc' = "done"
    /\ UNCHANGED <<pc_a, pc_b, pc_c, pc_ab, pc_abc, pc_ac, pc_others>>

PcNext == PcJoinAB \/ PcJoinABC \/ PcJoinAC \/ PcJoinACB

SpecCaps == PcInit /\ [][PcNext]_vars

\* The joins of capability summaries and of capability maps
SpecJoins == (JnInit \/ PcInit) /\ [][JnNext \/ PcNext]_vars

(***************************************************************************)
(* The fixpoint computation: blocks are taken from the worklist, the exit  *)
(* state of a block is joined into the entry state of each successor, and  *)
(* a successor whose join reports a change is put on the worklist.         *)
(***************************************************************************)
\* The control-flow graphs: a diamond, a loop with an exit, a block that is
\* its own successor, a cycle entered at two blocks, and a loop around a
\* diamond
ControlFlowGraphs ==
    { {<<0, 1>>, <<0, 2>>, <<1, 3>>, <<2, 3>>},
      {<<0, 1>>, <<1, 2>>, <<2, 1>>, <<1, 3>>},
      {<<0, 1>>, <<1, 1>>, <<1, 2>>, <<2, 3>>},
      {<<0, 1>>, <<0, 2>>, <<1, 2>>, <<2, 1>>, <<2, 3>>},
      {<<0, 1>>, <<0, 2>>, <<1, 3>>, <<2, 3>>, <<3, 1>>} }

successors(cfg, b) == {e[2] : e \in {d \in cfg : d[1] = b}}

\* The place the capabilities of the computation are about
FxPlace == LocalPlace(1)

FxEdges == {"e1", "e2"}

\* The bottom of the domain: the entry state of a block nothing was joined
\* into
FxBottom(kind) ==
    CASE kind = "summary" -> Allocated(EmptyCaps)
      [] kind = "caps" -> EmptyCaps
      [] kind = "borrows" -> EmptyGraph

\* The states a block can produce
FxStates(kind) ==
    CASE kind = "summary" -> AllLocalStates[FxPlace.local] \ {Allocated(EmptyCaps)}
      [] kind = "caps" -> UNION {[K -> CapabilityKind] : K \in SUBSET {FxPlace}}
      [] kind = "borrows" -> UNION {[E -> {{}}] : E \in SUBSET FxEdges}

\* The state of the start block: the local is allocated as a whole with
\* Exclusive, the place has Exclusive, every edge is held
FxStartStates(kind) ==
    CASE kind = "summary" -> {Allocated([p \in {FxPlace} |-> "Exclusive"])}
      [] kind = "caps" -> {[p \in {FxPlace} |-> "Exclusive"]}
      [] kind = "borrows" -> {[e \in FxEdges |-> {}]}

\* The iteration orders that matter to the join of the domain
FxPrefs(kind) ==
    CASE kind = "summary" -> Prefs
      [] kind = "caps" -> {pref \in Prefs : ~pref.self}
      [] kind = "borrows" -> {pref \in Prefs : ~pref.self /\ ~pref.other}

\* The effect of a block: the state is kept, or replaced by a state
FxEffects(kind) ==
    {[keep |-> TRUE, state |-> FxBottom(kind)]}
        \cup {[keep |-> FALSE, state |-> st] : st \in FxStates(kind)}

\* The exit state of block b for the entry state entry
FxTransfer(gen, b, entry) == IF gen[b].keep THEN entry ELSE gen[b].state

\* CapabilityLocal::join on every pair of states of the local, computed once
CapabilityLocal_joins ==
    [self \in AllLocalStates[FxPlace.local], other \in AllLocalStates[FxPlace.local], pref \in Prefs |->
        CapabilityLocal_join(self, other, pref)] @@ <<>>

\* PlaceCapabilities::join on every pair of capability maps, computed once
PlaceCapabilities_joins ==
    [self \in PlaceCapabilities, other \in PlaceCapabilities, reversed \in BOOLEAN |->
        PlaceCapabilities_join(self, other, reversed)] @@ <<>>

\* The join of the domain: the receiver after the join, the value returned
\* and whether the join failed
FxJoin(kind, self, other, self_block, other_block, pref) ==
    CASE kind = "summary" ->
            LET r == CapabilityLocal_joins[self, other, pref] IN
            [state |-> r.local, changed |-> r.changed, panicked |-> r.panicked]
      [] kind = "caps" ->
            LET r == PlaceCapabilities_joins[self, other, pref.other] IN
            [state |-> r.caps, changed |-> r.changed, panicked |-> FALSE]
      [] kind = "borrows" ->
            LET r == BorrowsDomain_join(self, other, self_block, other_block) IN
            [state |-> r.graph, changed |-> r.changed, panicked |-> FALSE]

FxInit ==
    /\ XcIdle /\ JnIdle /\ PcIdle /\ CaIdle /\ OlIdle /\ CgIdle /\ EnIdle /\ VaIdle /\ RpIdle /\ WkIdle /\ BvIdle /\ SbIdle /\ LbIdle /\ ClIdle /\ CoIdle
    /\ fx_pc = "run"
    /\ fx_kind \in {"summary", "caps", "borrows"}
    /\ fx_cfg \in ControlFlowGraphs
    /\ \E s0 \in FxStartStates(fx_kind) : \E g1, g2 \in FxEffects(fx_kind) :
          /\ fx_gen = [b \in Blocks |->
                          IF b = START_BLOCK THEN [keep |-> FALSE, state |-> s0]
                          ELSE IF b = 1 THEN g1
                          ELSE IF b = 2 THEN g2
                          ELSE [keep |-> TRUE, state |-> FxBottom(fx_kind)]]
          /\ fx_entry = [b \in Blocks |-> IF b = START_BLOCK THEN s0 ELSE FxBottom(fx_kind)]
    /\ fx_worklist = {START_BLOCK}
    /\ fx_done = {}

\* One step of the driver: block b is taken from the worklist and its exit
\* state is joined into the entry state of each of its successors
FxProcess(b) ==
    /\ fx_pc = "run"
    /\ b \in fx_worklist
    /\ \E pref \in FxPrefs(fx_kind) :
          LET exit == FxTransfer(fx_gen, b, fx_entry[b])
              succs == successors(fx_cfg, b)
              r == [s \in succs |-> FxJoin(fx_kind, fx_entry[s], exit, s, b, pref)]
          IN
          /\ fx_entry' = [s \in Blocks |-> IF s \in succs THEN r[s].state ELSE fx_entry[s]]
          /\ fx_worklist' = (fx_worklist \ {b}) \cup {s \in succs : r[s].changed}
          /\ fx_pc' = IF \E s \in succs : r[s].panicked THEN "panicked" ELSE "run"
    /\ fx_done' = fx_done \cup {b}
    /\ UNCHANGED <<fx_kind, fx_cfg, fx_gen, fx_others>>

FxNext == \E b \in Blocks : FxProcess(b)

SpecFixpoint == FxInit /\ [][FxNext]_vars /\ WF_vars(FxNext)

(***************************************************************************)
(* The call: a signature, operands and caller bounds, and the terminator   *)
(* of the call visited once.                                               *)
(***************************************************************************)
Destination == LocalPlace(0)

CallLocation == [block |-> 0, statement_index |-> 0]

\* The operand for input i: the place of local i, moved or copied, or a
\* constant
Operands(i) == {[is_place |-> b, place |-> LocalPlace(i)] : b \in BOOLEAN}

\* The caller bounds of the callee: none, 'a: 'b, or 'a: 'b and 'b: 'c
CallerBounds == {{}, {<<"'a", "'b">>}, {<<"'a", "'b">>, <<"'b", "'c">>}}

CaInit ==
    /\ XcIdle /\ JnIdle /\ PcIdle /\ FxIdle /\ OlIdle /\ CgIdle /\ EnIdle /\ VaIdle /\ RpIdle /\ WkIdle /\ BvIdle /\ SbIdle /\ LbIdle /\ ClIdle /\ CoIdle
    /\ ca_pc = "start"
    /\ \E n \in 1..MaxArgs :
          /\ ca_inputs \in [1..n -> SigTys]
          /\ ca_args \in {a \in [1..n -> UNION {Operands(i) : i \in 1..n}] :
                             \A i \in 1..n : a[i] \in Operands(i)}
    /\ ca_output \in SigTys
    /\ ca_param_env \in CallerBounds
    /\ ca_graph = {}

\* visit_terminator on the call, in the stage that applies its effect
VisitCall ==
    /\ ca_pc = "start"
    /\ ca_graph' = construct_region_abstraction_if_necessary(
                       ca_graph, ca_inputs, ca_args, ca_param_env, ca_output,
                       Destination, CallLocation)
    /\ ca_pc' = "done"
    /\ UNCHANGED <<ca_inputs, ca_args, ca_output, ca_param_env, ca_others>>

CaNext == VisitCall

SpecCall == CaInit /\ [][CaNext]_vars

(***************************************************************************)
(* The search of outlives, one iteration of its loop at a time.            *)
(***************************************************************************)
OlInit ==
    /\ XcIdle /\ JnIdle /\ PcIdle /\ FxIdle /\ CaIdle /\ CgIdle /\ EnIdle /\ VaIdle /\ RpIdle /\ WkIdle /\ BvIdle /\ SbIdle /\ LbIdle /\ ClIdle /\ CoIdle
    /\ ol_pc = "loop"
    /\ ol_constraints \in ConstraintLists
    /\ ol_sup \in RegionVids
    /\ ol_sub \in RegionVids
    /\ ol_visited = {}
    /\ ol_stack = <<ol_sup>>
    /\ ol_result = FALSE

\* The region popped is sub: return true
OlFound ==
    /\ ol_pc = "loop"
    /\ ol_stack # <<>>
    /\ Last(ol_stack) = ol_sub
    /\ ol_stack' = Front(ol_stack)
    /\ ol_result' = TRUE
    /\ ol_pc' = "done"
    /\ UNCHANGED <<ol_constraints, ol_sup, ol_sub, ol_visited, ol_others>>

\* The region popped is new: it is inserted into visited, and the sub of
\* each of its constraints is pushed
OlVisit ==
    /\ ol_pc = "loop"
    /\ ol_stack # <<>>
    /\ Last(ol_stack) # ol_sub
    /\ Last(ol_stack) \notin ol_visited
    /\ ol_visited' = ol_visited \cup {Last(ol_stack)}
    /\ ol_stack' = Front(ol_stack) \o outlives_pushed(ol_constraints, Last(ol_stack))
    /\ UNCHANGED <<ol_pc, ol_constraints, ol_sup, ol_sub, ol_result, ol_others>>

\* The region popped was visited before: nothing is pushed
OlRevisit ==
    /\ ol_pc = "loop"
    /\ ol_stack # <<>>
    /\ Last(ol_stack) # ol_sub
    /\ Last(ol_stack) \in ol_visited
    /\ ol_stack' = Front(ol_stack)
    /\ UNCHANGED <<ol_pc, ol_constraints, ol_sup, ol_sub, ol_visited, ol_result, ol_others>>

\* The stack is empty: return false
OlExhausted ==
    /\ ol_pc = "loop"
    /\ ol_stack = <<>>
    /\ ol_result' = FALSE
    /\ ol_pc' = "done"
    /\ UNCHANGED <<ol_constraints, ol_sup, ol_sub, ol_visited, ol_stack, ol_others>>

OlNext == OlFound \/ OlVisit \/ OlRevisit \/ OlExhausted

SpecOutlives == OlInit /\ [][OlNext]_vars /\ WF_vars(OlNext)

(***************************************************************************)
(* The construction of a coupling graph: the constructor is created, then  *)
(* construct_coupling_graph walks from every leaf, one call or one         *)
(* iteration of the loop of add_edges_from at a time.                      *)
(***************************************************************************)
CgInit ==
    /\ XcIdle /\ JnIdle /\ PcIdle /\ FxIdle /\ CaIdle /\ OlIdle /\ EnIdle /\ VaIdle /\ RpIdle /\ WkIdle /\ BvIdle /\ SbIdle /\ LbIdle /\ ClIdle /\ CoIdle
    /\ cg_pc = "new"
    /\ cg_dump_enabled \in BOOLEAN
    /\ cg_bg \in RegionProjectionGraphs
    /\ cg_is_old \in [CgNodes -> BOOLEAN]
    /\ cg_live_origins \in SUBSET CgNodes
    /\ cg_coupling_graph = Graph_new
    /\ cg_leaves = <<>>
    /\ cg_stack = <<>>

\* CouplingGraphConstructor::new
CgNew ==
    /\ cg_pc = "new"
    /\ cg_pc' = CouplingGraphConstructor_new(cg_dump_enabled)
    /\ UNCHANGED <<cg_dump_enabled, cg_bg, cg_is_old, cg_live_origins, cg_coupling_graph, cg_leaves, cg_stack, cg_others>>

\* construct_coupling_graph: the leaf nodes of the full graph
CgConstruct ==
    /\ cg_pc = "constructed"
    /\ cg_leaves' = SeqOfSet(leaf_nodes(cg_bg))
    /\ cg_pc' = "walk"
    /\ UNCHANGED <<cg_dump_enabled, cg_bg, cg_is_old, cg_live_origins, cg_coupling_graph, cg_stack, cg_others>>

CgState == [coupling_graph |-> cg_coupling_graph, stack |-> cg_stack, overflow |-> FALSE]

\* The top frame with the node its loop is at taken off
CgAdvanced ==
    [CgState EXCEPT !.stack[Len(cg_stack)].nodes = Tail(cg_stack[Len(cg_stack)].nodes)]

CgCalled(st) ==
    /\ cg_coupling_graph' = st.coupling_graph
    /\ cg_stack' = st.stack
    /\ cg_pc' = IF st.overflow THEN "overflow" ELSE "walk"

\* The loop of construct_coupling_graph: add_edges_from is called for the
\* next leaf
CgLeaf ==
    /\ cg_pc = "walk"
    /\ cg_stack = <<>>
    /\ cg_leaves # <<>>
    /\ CgCalled(add_edges_from(CgState, cg_bg, Head(cg_leaves), Head(cg_leaves)))
    /\ cg_leaves' = Tail(cg_leaves)
    /\ UNCHANGED <<cg_dump_enabled, cg_bg, cg_is_old, cg_live_origins, cg_others>>

\* The loop of add_edges_from at a node that is old or not live: the call
\* goes on from the node with the same bottom
CgWalkThrough ==
    /\ cg_pc = "walk"
    /\ cg_stack # <<>>
    /\ Last(cg_stack).nodes # <<>>
    /\ walked_through(Head(Last(cg_stack).nodes), cg_is_old, cg_live_origins)
    /\ CgCalled(add_edges_from(CgAdvanced, cg_bg, Last(cg_stack).bottom_connect,
                               Head(Last(cg_stack).nodes)))
    /\ UNCHANGED <<cg_dump_enabled, cg_bg, cg_is_old, cg_live_origins, cg_leaves, cg_others>>

\* The loop of add_edges_from at a live node: the node is connected to the
\* bottom, and the call goes on from the node as the new bottom
CgConnect ==
    /\ cg_pc = "walk"
    /\ cg_stack # <<>>
    /\ Last(cg_stack).nodes # <<>>
    /\ ~walked_through(Head(Last(cg_stack).nodes), cg_is_old, cg_live_origins)
    /\ CgCalled(add_edges_from(
                    [CgAdvanced EXCEPT !.coupling_graph =
                        add_edge(cg_coupling_graph, Head(Last(cg_stack).nodes),
                                 Last(cg_stack).bottom_connect)],
                    cg_bg, Head(Last(cg_stack).nodes), Head(Last(cg_stack).nodes)))
    /\ UNCHANGED <<cg_dump_enabled, cg_bg, cg_is_old, cg_live_origins, cg_leaves, cg_others>>

\* The loop of add_edges_from is over: the call returns
CgReturn ==
    /\ cg_pc = "walk"
    /\ cg_stack # <<>>
    /\ Last(cg_stack).nodes = <<>>
    /\ cg_stack' = Front(cg_stack)
    /\ UNCHANGED <<cg_pc, cg_dump_enabled, cg_bg, cg_is_old, cg_live_origins, cg_coupling_graph, cg_leaves, cg_others>>

\* construct_coupling_graph returns self.coupling_graph
CgDone ==
    /\ cg_pc = "walk"
    /\ cg_stack = <<>>
    /\ cg_leaves = <<>>
    /\ cg_pc' = "done"
    /\ UNCHANGED <<cg_dump_enabled, cg_bg, cg_is_old, cg_live_origins, cg_coupling_graph, cg_leaves, cg_stack, cg_others>>

CgNext == CgNew \/ CgConstruct \/ CgLeaf \/ CgWalkThrough \/ CgConnect \/ CgReturn \/ CgDone

SpecCoupling == CgInit /\ [][CgNext]_vars /\ WF_vars(CgNext)

(***************************************************************************)
(* The engine on one instruction: its before-effect, then its main effect. *)
(***************************************************************************)
\* The states of a borrows graph
BorrowsStates == FxStates("borrows")

EnInit ==
    /\ XcIdle /\ JnIdle /\ PcIdle /\ FxIdle /\ CaIdle /\ OlIdle /\ CgIdle /\ VaIdle /\ RpIdle /\ WkIdle /\ BvIdle /\ SbIdle /\ LbIdle /\ ClIdle /\ CoIdle
    /\ en_pc = "before"
    /\ en_instruction \in {"statement", "terminator"}
    /\ en_state \in [before_start : BorrowsStates, before_after : BorrowsStates,
                     start : BorrowsStates, after : BorrowsStates]
    /\ en_passes = <<>>

EnBefore ==
    /\ en_pc = "before"
    /\ \E prepared, applied \in BorrowsStates :
          LET r == apply_before_effect(en_state, prepared, applied) IN
          /\ en_state' = r.domain
          /\ en_passes' = en_passes \o r.passes
    /\ en_pc' = "main"
    /\ UNCHANGED <<en_instruction, en_others>>

EnMain ==
    /\ en_pc = "main"
    /\ \E prepared, applied \in BorrowsStates :
          LET r == apply_effect(en_state, prepared, applied) IN
          /\ en_state' = r.domain
          /\ en_passes' = en_passes \o r.passes
    /\ en_pc' = "done"
    /\ UNCHANGED <<en_instruction, en_others>>

apply_before_statement_effect == en_instruction = "statement" /\ EnBefore

apply_statement_effect == en_instruction = "statement" /\ EnMain

apply_before_terminator_effect == en_instruction = "terminator" /\ EnBefore

apply_terminator_effect == en_instruction = "terminator" /\ EnMain

EnNext ==
    \/ apply_before_statement_effect
    \/ apply_statement_effect
    \/ apply_before_terminator_effect
    \/ apply_terminator_effect

SpecEngine == EnInit /\ [][EnNext]_vars

(***************************************************************************)
(* One checked operation under a configuration of the validity checks: a   *)
(* pcg_validity_assert, an expansion or a collapse.                        *)
(***************************************************************************)
VaInit ==
    /\ XcIdle /\ JnIdle /\ PcIdle /\ FxIdle /\ CaIdle /\ OlIdle /\ CgIdle /\ EnIdle /\ RpIdle /\ WkIdle /\ BvIdle /\ SbIdle /\ LbIdle /\ ClIdle /\ CoIdle
    /\ va_pc = "start"
    /\ va_enabled \in BOOLEAN
    /\ va_warn_only \in BOOLEAN
    /\ va_op \in {"assert", "expand", "collapse"}
    /\ va_cond \in IF va_op = "assert" THEN [1..2 -> BOOLEAN] ELSE {<<TRUE, TRUE>>}
    /\ va_self \in IF va_op = "assert" THEN {LocalPlace(1)} ELSE AllPlaces
    /\ va_to \in IF va_op = "expand" THEN {q \in AllPlaces : q.local = va_self.local}
                 ELSE {va_self}
    /\ va_from \in IF va_op = "collapse" THEN CollapseSets(va_self) ELSE {{}}
    /\ va_logged = 0
    /\ va_aborted = FALSE

\* pcg_validity_assert!(cond)
VaAssert ==
    /\ va_pc = "start"
    /\ va_op = "assert"
    /\ LET r == pcg_validity_assert(va_enabled, va_warn_only, va_cond) IN
       /\ va_logged' = r.logged
       /\ va_aborted' = r.aborted
    /\ va_pc' = "done"
    /\ UNCHANGED <<va_enabled, va_warn_only, va_op, va_cond, va_self, va_to, va_from, va_others>>

\* self.expand(to, repacker)
VaExpand ==
    /\ va_pc = "start"
    /\ va_op = "expand"
    /\ va_aborted' = expand(va_self, va_to).panicked
    /\ va_pc' = "done"
    /\ UNCHANGED <<va_enabled, va_warn_only, va_op, va_cond, va_self, va_to, va_from, va_logged, va_others>>

\* self.collapse(&mut from, repacker)
VaCollapse ==
    /\ va_pc = "start"
    /\ va_op = "collapse"
    /\ \E r \in collapse(va_self, va_from) : va_aborted' = r.panicked
    /\ va_pc' = "done"
    /\ UNCHANGED <<va_enabled, va_warn_only, va_op, va_cond, va_self, va_to, va_from, va_logged, va_others>>

VaNext == VaAssert \/ VaExpand \/ VaCollapse

SpecValidity == VaInit /\ [][VaNext]_vars

(***************************************************************************)
(* Threads that call run_pcg, each up to MaxRuns times.                    *)
(***************************************************************************)
RpInit ==
    /\ XcIdle /\ JnIdle /\ PcIdle /\ FxIdle /\ CaIdle /\ OlIdle /\ CgIdle /\ EnIdle /\ VaIdle /\ WkIdle /\ BvIdle /\ SbIdle /\ LbIdle /\ ClIdle /\ CoIdle
    /\ rp_pc = [t \in Threads |-> "idle"]
    /\ rp_record_pcg = FALSE
    /\ rp_mutex = NoThread
    /\ rp_steps = [t \in Threads |-> 0]
    /\ rp_runs = [t \in Threads |-> 0]

\* run_pcg is called: the engine is created and RECORD_PCG is locked
RpLockOn(t) ==
    /\ rp_pc[t] = "idle"
    /\ rp_runs[t] < MaxRuns
    /\ rp_mutex = NoThread
    /\ rp_mutex' = t
    /\ rp_pc' = [rp_pc EXCEPT ![t] = "lock_on"]
    /\ UNCHANGED <<rp_record_pcg, rp_steps, rp_runs, rp_others>>

\* *record_pcg = true, and the guard is dropped at the end of the block
RpRecordOn(t) ==
    /\ rp_pc[t] = "lock_on"
    /\ rp_mutex = t
    /\ rp_record_pcg' = TRUE
    /\ rp_mutex' = NoThread
    /\ rp_pc' = [rp_pc EXCEPT ![t] = "fixpoint"]
    /\ rp_steps' = [rp_steps EXCEPT ![t] = 0]
    /\ UNCHANGED <<rp_runs, rp_others>>

\* A step of compute_fixpoint
RpFixpointStep(t) ==
    /\ rp_pc[t] = "fixpoint"
    /\ rp_steps[t] < MaxFixpointSteps
    /\ rp_steps' = [rp_steps EXCEPT ![t] = rp_steps[t] + 1]
    /\ UNCHANGED <<rp_pc, rp_record_pcg, rp_mutex, rp_runs, rp_others>>

\* compute_fixpoint has returned: RECORD_PCG is locked again
RpLockOff(t) ==
    /\ rp_pc[t] = "fixpoint"
    /\ rp_mutex = NoThread
    /\ rp_mutex' = t
    /\ rp_pc' = [rp_pc EXCEPT ![t] = "lock_off"]
    /\ UNCHANGED <<rp_record_pcg, rp_steps, rp_runs, rp_others>>

\* *record_pcg = false, the guard is dropped, and run_pcg goes on to return
RpRecordOff(t) ==
    /\ rp_pc[t] = "lock_off"
    /\ rp_mutex = t
    /\ rp_record_pcg' = FALSE
    /\ rp_mutex' = NoThread
    /\ rp_pc' = [rp_pc EXCEPT ![t] = "idle"]
    /\ rp_runs' = [rp_runs EXCEPT ![t] = rp_runs[t] + 1]
    /\ UNCHANGED <<rp_steps, rp_others>>

run_pcg(t) ==
    \/ RpLockOn(t)
    \/ RpRecordOn(t)
    \/ RpFixpointStep(t)
    \/ RpLockOff(t)
    \/ RpRecordOff(t)

RpNext == \E t \in Threads : run_pcg(t)

SpecRecord == RpInit /\ [][RpNext]_vars

(***************************************************************************)
(* Code of the crate that constructs Weaken actions.                       *)
(***************************************************************************)
WkInit ==
    /\ XcIdle /\ JnIdle /\ PcIdle /\ FxIdle /\ CaIdle /\ OlIdle /\ CgIdle /\ EnIdle /\ VaIdle /\ RpIdle /\ BvIdle /\ SbIdle /\ LbIdle /\ ClIdle /\ CoIdle
    /\ wk_actions = <<>>

\* Weaken::new(place, from, to), with any arguments of the parameter types
WkNew ==
    /\ Len(wk_actions) < MaxActions
    /\ \E place \in CapPlaces, from \in CapabilityKind,
          to \in CapabilityKind \cup {NoCapability} :
          wk_actions' = Append(wk_actions, Weaken_new(place, from, to))
    /\ UNCHANGED wk_others

WkNext == WkNew

SpecWeaken == WkInit /\ [][WkNext]_vars

(***************************************************************************)
(* The engine and the visitor on one instruction: the before-effect, then  *)
(* the main effect, each a preparing and an applying pass of the visitor.  *)
(***************************************************************************)
BvInit ==
    /\ XcIdle /\ JnIdle /\ PcIdle /\ FxIdle /\ CaIdle /\ OlIdle /\ CgIdle /\ EnIdle /\ VaIdle /\ RpIdle /\ WkIdle /\ SbIdle /\ LbIdle /\ ClIdle /\ CoIdle
    /\ bv_pc = "before"
    /\ bv_instruction \in Instructions
    /\ bv_state = [before_start |-> <<>>, before_after |-> <<>>, start |-> <<>>, after |-> <<>>]
    /\ bv_passes = <<>>

\* A pass reaches todo!(): the analysis stops where the pass had come to
BvPanic ==
    /\ bv_pc \in {"before", "main"}
    /\ Let(visit(bv_state.after, bv_pc = "before", TRUE, bv_instruction), LAMBDA prepared :
          /\ prepared.panicked
          /\ bv_state' = BorrowsVisitor_visit(bv_state, prepared.after))
    /\ bv_pc' = "panicked"
    /\ UNCHANGED <<bv_instruction, bv_passes, bv_others>>

\* apply_before_statement_effect / apply_before_terminator_effect
BvBefore ==
    /\ bv_pc = "before"
    /\ Let(visit(bv_state.after, TRUE, TRUE, bv_instruction), LAMBDA prepared :
       Let(visit(prepared.after, TRUE, FALSE, bv_instruction), LAMBDA applied :
          /\ ~prepared.panicked /\ ~applied.panicked
          /\ Let(apply_before_effect(bv_state, prepared.after, applied.after), LAMBDA r :
                /\ bv_state' = r.domain
                /\ bv_passes' = bv_passes \o r.passes)))
    /\ bv_pc' = "main"
    /\ UNCHANGED <<bv_instruction, bv_others>>

\* apply_statement_effect / apply_terminator_effect
BvMain ==
    /\ bv_pc = "main"
    /\ Let(visit(bv_state.after, FALSE, TRUE, bv_instruction), LAMBDA prepared :
       Let(visit(prepared.after, FALSE, FALSE, bv_instruction), LAMBDA applied :
          /\ ~prepared.panicked /\ ~applied.panicked
          /\ Let(apply_effect(bv_state, prepared.after, applied.after), LAMBDA r :
                /\ bv_state' = r.domain
                /\ bv_passes' = bv_passes \o r.passes)))
    /\ bv_pc' = "done"
    /\ UNCHANGED <<bv_instruction, bv_others>>

BvNext == BvPanic \/ BvBefore \/ BvMain

SpecVisitor == BvInit /\ [][BvNext]_vars

(***************************************************************************)
(* The domain of the start block of a body with up to MaxArgs arguments.   *)
(***************************************************************************)
\* BorrowsDomain::new: four empty states
SbInit ==
    /\ XcIdle /\ JnIdle /\ PcIdle /\ FxIdle /\ CaIdle /\ OlIdle /\ CgIdle /\ EnIdle /\ VaIdle /\ RpIdle /\ WkIdle /\ BvIdle /\ LbIdle /\ ClIdle /\ CoIdle
    /\ sb_pc = "new"
    /\ sb_arg_tys \in UNION {[1..n -> SigTys] : n \in 0..MaxArgs}
    /\ sb_state = [before_start |-> EmptyGraph, before_after |-> EmptyGraph,
                   start |-> EmptyGraph, after |-> EmptyGraph]

SbInitialize ==
    /\ sb_pc = "new"
    /\ sb_state' = initialize_as_start_block(sb_state, sb_arg_tys)
    /\ sb_pc' = "initialized"
    /\ UNCHANGED <<sb_arg_tys, sb_others>>

SbNext == SbInitialize

SpecStart == SbInit /\ [][SbNext]_vars

(***************************************************************************)
(* compute_loop_blocks on a back edge of a control-flow graph in which     *)
(* every block is reached from the start block.                            *)
(***************************************************************************)
LbInit ==
    /\ XcIdle /\ JnIdle /\ PcIdle /\ FxIdle /\ CaIdle /\ OlIdle /\ CgIdle /\ EnIdle /\ VaIdle /\ RpIdle /\ WkIdle /\ BvIdle /\ SbIdle /\ ClIdle /\ CoIdle
    /\ lb_pc = "loop"
    /\ lb_cfg \in SUBSET (LoopBlocks \X LoopBlocks)
    /\ \A b \in LoopBlocks : 0 \in ReachingAvoiding(lb_cfg, {b}, NumLoopBlocks)
    /\ lb_loop_header \in LoopBlocks
    /\ lb_back_edge_source \in LoopBlocks
    /\ is_back_edge(lb_cfg, lb_back_edge_source, lb_loop_header)
    /\ lb_loop_blocks = {}
    /\ lb_stack = <<lb_back_edge_source>>

\* stack.pop() gives a block that is in the set already: continue
LbVisited ==
    /\ lb_pc = "loop"
    /\ lb_stack # <<>>
    /\ Last(lb_stack) \in lb_loop_blocks
    /\ lb_stack' = Front(lb_stack)
    /\ UNCHANGED <<lb_pc, lb_cfg, lb_loop_header, lb_back_edge_source, lb_loop_blocks, lb_others>>

\* stack.pop() gives a new block: it is inserted and its predecessors, the
\* loop header excepted, are pushed
LbVisit ==
    /\ lb_pc = "loop"
    /\ lb_stack # <<>>
    /\ Last(lb_stack) \notin lb_loop_blocks
    /\ lb_loop_blocks' = lb_loop_blocks \cup {Last(lb_stack)}
    /\ lb_stack' = Front(lb_stack)
            \o SeqOfSet(predecessors(lb_cfg, Last(lb_stack)) \ {lb_loop_header})
    /\ UNCHANGED <<lb_pc, lb_cfg, lb_loop_header, lb_back_edge_source, lb_others>>

\* The stack is empty: the loop header is inserted and the set returned
LbReturn ==
    /\ lb_pc = "loop"
    /\ lb_stack = <<>>
    /\ lb_loop_blocks' = lb_loop_blocks \cup {lb_loop_header}
    /\ lb_pc' = "done"
    /\ UNCHANGED <<lb_cfg, lb_loop_header, lb_back_edge_source, lb_stack, lb_others>>

compute_loop_blocks == LbVisited \/ LbVisit \/ LbReturn

LbNext == compute_loop_blocks

SpecLoop == LbInit /\ [][LbNext]_vars /\ WF_vars(LbNext)

(***************************************************************************)
(* A sequence of joins into the state of one local, as the fixpoint driver *)
(* joins the exit states of the predecessors into the entry of a block.    *)
(***************************************************************************)
ClInit ==
    /\ XcIdle /\ JnIdle /\ PcIdle /\ FxIdle /\ CaIdle /\ OlIdle /\ CgIdle /\ EnIdle /\ VaIdle /\ RpIdle /\ WkIdle /\ BvIdle /\ SbIdle /\ LbIdle /\ CoIdle
    /\ cl_pc = "joining"
    /\ cl_local \in ClLocals
    /\ cl_receiver \in AllLocalStates[cl_local]
    /\ cl_before = cl_receiver
    /\ cl_donor = Unallocated
    /\ cl_changed = FALSE
    /\ cl_joins = 0

\* receiver.join(&donor, repacker); a join that panics ends the run
ClJoin ==
    /\ cl_pc = "joining"
    /\ cl_joins < MaxJoins
    /\ \E donor \in AllLocalStates[cl_local], pref \in Prefs :
          Let(CapabilityLocal_join(cl_receiver, donor, pref), LAMBDA r :
              /\ cl_receiver' = r.local
              /\ cl_changed' = r.changed
              /\ cl_pc' = IF r.panicked THEN "panicked" ELSE "joining"
              /\ cl_donor' = donor)
    /\ cl_before' = cl_receiver
    /\ cl_joins' = cl_joins + 1
    /\ UNCHANGED <<cl_local, cl_others>>

ClNext == ClJoin

SpecLocal == ClInit /\ [][ClNext]_vars

(***************************************************************************)
(* Place::collapse on a frontier of the place, handed over in a set that   *)
(* may hold one more place, of any local, that is not under the place.     *)
(***************************************************************************)
CoInit ==
    /\ XcIdle /\ JnIdle /\ PcIdle /\ FxIdle /\ CaIdle /\ OlIdle /\ CgIdle /\ EnIdle /\ VaIdle /\ RpIdle /\ WkIdle /\ BvIdle /\ SbIdle /\ LbIdle /\ ClIdle
    /\ co_pc = "start"
    /\ co_self \in AllPlaces
    /\ \E F \in Frontiers(co_self) :
          \E X \in {{}} \cup {{q} : q \in {p \in AllPlaces : ~is_prefix(co_self, p)}} :
              co_given = F \cup X
    /\ co_from = co_given
    /\ co_collapsed = <<>>

\* self.collapse(&mut from, repacker), with any place from.iter().find(..)
\* may return as expansion guide
CoCollapse ==
    /\ co_pc = "start"
    /\ \E r \in collapse(co_self, co_given) :
        /\ co_pc' = IF r.panicked THEN "panicked" ELSE "collapsed"
        /\ co_from' = r.from
        /\ co_collapsed' = r.collapsed
    /\ UNCHANGED <<co_self, co_given, co_others>>

CoNext == CoCollapse

SpecCollapse == CoInit /\ [][CoNext]_vars

(***************************************************************************)
(* Properties of expand and collapse.                                      *)
(***************************************************************************)
ProperPrefix(p, q) == is_prefix(p, q) /\ p # q

\* C5: for a place p that is a proper prefix of q, p.collapse on the set
\* made of q and the other places returned by p.expand(q) does not fail,
\* consumes every place of the set, and its last step folds back into p.
C5_ExpandCollapseRoundTrip ==
    (ProperPrefix(xc_self, xc_to) /\ xc_pc \in {"collapsed", "panicked"}) =>
        /\ xc_pc = "collapsed"
        /\ xc_from = {}
        /\ Last(xc_collapsed)[1] = xc_self

\* A round trip over two levels with sibling places at both levels.
C5_Witness ==
    /\ xc_pc = "collapsed"
    /\ ProperPrefix(xc_self, xc_to)
    /\ Len(xc_to.projection) >= Len(xc_self.projection) + 2
    /\ Len(xc_place_set) >= 2
    /\ xc_from = {}

(***************************************************************************)
(* Properties of the join of capability summaries.                         *)
(***************************************************************************)
JnA == jn_a[jn_local]

JnB == jn_b[jn_local]

JnAB == jn_ab.summary[jn_local]

JnBA == jn_ba.summary[jn_local]

Related(p, q) == Place_partial_cmp(p, q) # "Unrelated"

PairwiseNonPrefix(caps) == \A p, q \in DOMAIN caps : p # q => ~is_prefix(p, q)

\* C1: the receiver after a.join(b) tracks the same places with the same
\* capabilities as the receiver after b.join(a).
C1_JoinCommutative == jn_pc = "done" => JnAB = JnBA

\* The capability of every place the receiver tracks after the join is at
\* most the capability of every related place of before
NeverIncreases(after, before) ==
    \A p \in DOMAIN after.places : \A q \in DOMAIN before.places :
        Related(p, q) => cap_le(after.places[p], before.places[q])

\* C3: after self.join(other) the capability of every place of the receiver
\* is at most the capability the receiver held, and at most the capability
\* the donor holds, for that place or for the tracked place related to it.
C3_JoinNeverIncreases ==
    jn_pc = "done" =>
        /\ NeverIncreases(JnAB, JnA) /\ NeverIncreases(JnAB, JnB)
        /\ NeverIncreases(JnBA, JnB) /\ NeverIncreases(JnBA, JnA)

\* C4: after the join of a receiver and a donor whose tracked places are
\* pairwise non-prefix-related, no tracked place of the receiver is a prefix
\* of another one, and the join has not failed.
C4_JoinPreservesFrontier ==
    /\ jn_pc \in {"ab", "done"} =>
        ~jn_ab.panicked /\ PairwiseNonPrefix(JnAB.places)
    /\ jn_pc = "done" =>
        ~jn_ba.panicked /\ PairwiseNonPrefix(JnBA.places)

\* The receiver tracked two places of one enum variant, the donor a place
\* of another variant (the Both case): the receiver ends with the common
\* prefix.
C4_Witness ==
    /\ jn_pc = "done"
    /\ Cardinality(DOMAIN JnA.places) = 2
    /\ \E p \in DOMAIN JnA.places : \E q \in DOMAIN JnB.places :
          Place_partial_cmp(p, q) = "Both"
    /\ DOMAIN JnAB.places = {LocalPlace(jn_local)}
    /\ jn_ab.changed

\* The scenario of C8: a tracks a field place xf = x.f with Exclusive and b
\* tracks its parent x with Read.
IsFieldOf(xf, x) ==
    /\ xf.local = x.local
    /\ Len(xf.projection) = Len(x.projection) + 1
    /\ is_prefix(x, xf)
    /\ Last(xf.projection).kind = "Field"

C8_Scenario(xf, x) ==
    /\ jn_pc = "done"
    /\ JnA.allocated /\ JnB.allocated
    /\ xf \in DOMAIN JnA.places /\ JnA.places[xf] = "Exclusive"
    /\ x \in DOMAIN JnB.places /\ JnB.places[x] = "Read"
    /\ IsFieldOf(xf, x)

C2_JoinIdempotent ==
    /\ (jn_pc \in {"ab", "done"} /\ jn_b = jn_a) =>
           ~jn_ab.panicked /\ jn_ab.summary = jn_a
    /\ (pc_pc \in {"ab", "abc", "ac", "done"} /\ pc_b = pc_a) => pc_ab.caps = pc_a

\* A summary with two tracked places, or a map with two entries, joined
\* with itself
C2_Witness ==
    \/ /\ jn_pc = "ab" /\ jn_b = jn_a
       /\ Cardinality(DOMAIN JnA.places) >= 2
       /\ jn_ab.summary = jn_a
    \/ /\ pc_pc = "ab" /\ pc_b = pc_a
       /\ Cardinality(DOMAIN pc_a) >= 2
       /\ pc_ab.caps = pc_a

FxFixpoint ==
    /\ fx_pc = "run"
    /\ fx_worklist = {}
    /\ \A e \in fx_cfg : e[1] \in fx_done =>
          \A pref \in FxPrefs(fx_kind) :
              ~FxJoin(fx_kind, fx_entry[e[2]],
                      FxTransfer(fx_gen, e[1], fx_entry[e[1]]), e[2], e[1], pref).changed

\* C6: on every control-flow graph, with or without loops, the computation
\* that joins exit states into entry states again whenever a join reports a
\* change reaches a state in which every further join returns false.
C6_FixpointReached == (fx_pc = "run") ~> FxFixpoint

\* Every run of the computation empties the worklist
FxTerminates == (fx_pc = "run") ~> (fx_pc = "run" /\ fx_worklist = {})

(***************************************************************************)
(* Properties of the abstraction of a call.                                *)
(***************************************************************************)
NoLifetimeInOutput == extract_lifetimes(ca_output) = <<>>

NoLifetimeInPlaceInputs ==
    \A i \in 1..Len(ca_inputs) :
        ca_args[i].is_place => extract_lifetimes(ca_inputs[i]) = <<>>

\* C10: after the call is visited, the borrow graph holds no abstraction
\* edge when the output type of the signature holds no lifetime, or when no
\* input type of an operand that is a place holds a lifetime.
C10_NoLifetimesNoAbstraction ==
    (ca_pc = "done" /\ (NoLifetimeInOutput \/ NoLifetimeInPlaceInputs)) => ca_graph = {}

\* A call visited whose output is a mutable reference, whose first operand
\* is a place of type i32 and whose second operand is a constant of a
\* reference type with the lifetime of the output
C10_Witness ==
    /\ ca_pc = "done"
    /\ Len(ca_inputs) = 2
    /\ ca_output.kind = "Ref" /\ ca_output.is_mut
    /\ ca_args[1].is_place /\ ca_inputs[1] = TyI32
    /\ ~ca_args[2].is_place /\ ca_inputs[2] = ca_output
    /\ ca_graph = {}

\* A call like z = identity(y): one operand, a place, whose type is a mutable
\* reference to i32, and an output of the same type and lifetime
IdentityCall ==
    /\ Len(ca_inputs) = 1
    /\ ca_args[1].is_place
    /\ ca_inputs[1].kind = "Ref" /\ ca_inputs[1].is_mut /\ ca_inputs[1].inner = "Int"
    /\ ca_output = ca_inputs[1]

\* C11: after a call with a single &mut T input, given as a place, and a
\* &mut T output of the same type and lifetime (T without lifetimes), the
\* borrow graph holds one function-call abstraction with exactly one edge:
\* its single input is the dereference of the input place and its single
\* output is the dereference of the destination place.
C11_IdentityCallOneEdge ==
    (ca_pc = "done" /\ IdentityCall) =>
        ca_graph = {[kind |-> "FunctionCall", location |-> CallLocation,
                     edges |-> <<
                        <<0, AbstractionBlockEdge(
                                {AbstractionTarget_Place(mk_deref(ca_args[1].place))},
                                {AbstractionTarget_Place(mk_deref(Destination))})>> >>]}

\* The identity call visited, with its abstraction in the graph
C11_Witness ==
    /\ ca_pc = "done"
    /\ IdentityCall
    /\ ca_graph # {}

\* The regions reached from the regions of S along the bounds of param_env
RECURSIVE OutlivedBy(_, _)
OutlivedBy(S, param_env) ==
    LET T == S \cup {b[2] : b \in {c \in param_env : c[1] \in S}} IN
    IF T = S THEN S ELSE OutlivedBy(T, param_env)

\* The bounds entail that r1 outlives r2: the lifetimes are equal, a bound
\* declares it, or a chain of bounds leads from r1 to r2
Entails(param_env, r1, r2) == r2 \in OutlivedBy({r1}, param_env)

\* The lifetimes of the input of type ty at the place input_place for which
\* the call looks for matches, each with the target that stands for it: the
\* lifetime of a mutable reference with the dereference of the place, and
\* the lifetimes of the referred (or non-reference) type with their region
\* projections
InputTargets(ty, input_place) ==
    LET is_ref == ty.kind = "Ref"
        inner == extract_lifetimes(IF is_ref THEN RefInner(ty) ELSE ty)
    IN (IF is_ref /\ ty.is_mut
        THEN {<<AbstractionTarget_Place(mk_deref(input_place)), ty.region>>}
        ELSE {})
       \cup {<<AbstractionTarget_RegionProjection(input_place, k - 1), inner[k]>> :
                k \in 1..Len(inner)}

\* The lifetimes of the output of type output_ty, each with the target
\* that stands for it at the destination
OutputTargets(output_ty, output_place) ==
    LET is_mut_ref == output_ty.kind = "Ref" /\ output_ty.is_mut
        inner == extract_lifetimes(IF is_mut_ref THEN RefInner(output_ty) ELSE output_ty)
    IN (IF is_mut_ref
        THEN {<<AbstractionTarget_Place(mk_deref(output_place)), output_ty.region>>}
        ELSE {})
       \cup {<<AbstractionTarget_RegionProjection(output_place, k - 1), inner[k]>> :
                k \in 1..Len(inner)}

\* The edges of the function-call abstractions of the graph
GraphEdges == UNION {Range(a.edges) : a \in ca_graph}

\* C12: after the call is visited, for every operand that is a place, every
\* lifetime of its input type and every lifetime of the output that the
\* caller bounds entail the input lifetime to outlive (equal lifetimes, a
\* declared bound or a chain of declared bounds), the graph holds the edge
\* from the target of the input lifetime to the target of the output
\* lifetime.
C12_EntailedLifetimesGetEdges ==
    ca_pc = "done" =>
        \A i \in 1..Len(ca_inputs) :
            ca_args[i].is_place =>
                \A it \in InputTargets(ca_inputs[i], ca_args[i].place) :
                    \A ot \in OutputTargets(ca_output, Destination) :
                        Entails(ca_param_env, it[2], ot[2]) =>
                            <<i - 1, AbstractionBlockEdge({it[1]}, {ot[1]})>> \in GraphEdges

\* The same for the lifetimes that are equal or related by one declared
\* bound
C12_DeclaredLifetimesGetEdges ==
    ca_pc = "done" =>
        \A i \in 1..Len(ca_inputs) :
            ca_args[i].is_place =>
                \A it \in InputTargets(ca_inputs[i], ca_args[i].place) :
                    \A ot \in OutputTargets(ca_output, Destination) :
                        (it[2] = ot[2] \/ <<it[2], ot[2]>> \in ca_param_env) =>
                            <<i - 1, AbstractionBlockEdge({it[1]}, {ot[1]})>> \in GraphEdges

(***************************************************************************)
(* Properties of outlives.                                                 *)
(***************************************************************************)
\* The regions reached from the regions of S along the constraints, each
\* followed from its sup to its sub, in zero or more steps
RECURSIVE ReachableRegions(_, _)
ReachableRegions(S, constraints) ==
    LET T == S \cup {constraints[i].sub :
                        i \in {k \in 1..Len(constraints) : constraints[k].sup \in S}}
    IN IF T = S THEN S ELSE ReachableRegions(T, constraints)

\* C13: for every list of outlives constraints, cyclic ones included,
\* outlives(sup, sub) terminates, and returns true exactly when sub is
\* reached from sup along the constraints, each followed from its sup to
\* its sub, in zero or more steps.
C13_OutlivesIsReachability ==
    (ol_pc = "loop") ~>
        (ol_pc = "done"
         /\ ol_result = (ol_sub \in ReachableRegions({ol_sup}, ol_constraints)))

\* outlives has returned true for two different regions on a cycle of
\* constraints, with regions left on the stack
C13_Witness ==
    /\ ol_pc = "done"
    /\ ol_result
    /\ ol_sup # ol_sub
    /\ ol_sup \in ReachableRegions({ol_sub}, ol_constraints)
    /\ ol_sub \in ReachableRegions({ol_sup}, ol_constraints)
    /\ ol_stack # <<>>

(***************************************************************************)
(* Properties of the coupling graph constructor.                           *)
(***************************************************************************)
CgLive(n) == ~cg_is_old[n] /\ n \in cg_live_origins

\* C14: every node of the graph construct_coupling_graph returns is a live
\* region projection: its place is not old and its region is live at the
\* start of the block.
C14_OnlyLiveNodes ==
    cg_pc = "done" => \A n \in GraphNodes(cg_coupling_graph) : CgLive(n)

\* C15: construct_coupling_graph returns for every region projection graph,
\* cyclic ones included.
C15_ConstructionTerminates == (cg_pc = "constructed") ~> (cg_pc = "done")

\* C16: when the output of the lifetime oracle is not complete (dump not
\* enabled), the constructor panics when it is created, and no coupling
\* graph is built.
C16_NoGraphWithoutDump ==
    ~cg_dump_enabled =>
        /\ cg_pc \in {"new", "panicked"}
        /\ cg_coupling_graph = Graph_new

\* The constructor has panicked on a borrows graph with region projections
C16_Witness ==
    /\ cg_pc = "panicked"
    /\ ~cg_dump_enabled
    /\ cg_bg # {}

(***************************************************************************)
(* Properties of the snapshots of the engine.                              *)
(***************************************************************************)
\* C17: after the before-effect and the main effect of an instruction,
\* before_start is the state the preparing pass of the before phase left,
\* before_after the state its applying pass left, start the state the
\* preparing pass of the main phase left, and after the state the last pass
\* left; each pass but the first started from the state the pass before it
\* left.
C17_SnapshotsInOrder ==
    en_pc = "done" =>
        /\ Len(en_passes) = 4
        /\ en_state.before_start = en_passes[1].to
        /\ en_state.before_after = en_passes[2].to
        /\ en_state.start = en_passes[3].to
        /\ en_state.after = en_passes[4].to
        /\ \A k \in 1..3 : en_passes[k + 1].from = en_passes[k].to

\* A terminator whose four passes left four different states, the first of
\* them not the state the instruction started from
C17_Witness ==
    /\ en_pc = "done"
    /\ en_instruction = "terminator"
    /\ Cardinality({en_passes[k].to : k \in 1..4}) = 4
    /\ en_passes[1].from # en_passes[1].to

(***************************************************************************)
(* Properties of the validity checks.                                      *)
(***************************************************************************)
\* The condition has one value, whenever it is evaluated
VaCondIs(b) == va_cond = <<b, b>>

\* C18: a pcg_validity_assert does nothing when the validity checks are
\* disabled, whatever the condition; with the checks enabled, a false
\* condition is logged and execution continues in warn-only mode, and is
\* logged and aborts in fatal mode; a true condition never logs or aborts.
C18_AssertFollowsMode ==
    (va_pc = "done" /\ va_op = "assert") =>
        /\ ~va_enabled => (va_logged = 0 /\ ~va_aborted)
        /\ (va_enabled /\ va_warn_only /\ VaCondIs(FALSE)) => (va_logged = 1 /\ ~va_aborted)
        /\ (va_enabled /\ ~va_warn_only /\ VaCondIs(FALSE)) => (va_logged = 1 /\ va_aborted)
        /\ VaCondIs(TRUE) => (va_logged = 0 /\ ~va_aborted)

\* A false condition checked in warn-only mode: logged, not aborted
C18_Witness ==
    /\ va_pc = "done"
    /\ va_op = "assert"
    /\ va_enabled /\ va_warn_only
    /\ VaCondIs(FALSE)
    /\ va_logged = 1
    /\ ~va_aborted

\* The operation has met an internal-consistency violation: an expansion
\* whose minuend is not a prefix of the target, or a collapse whose from set
\* holds no complete unrolling of the guide place
VaViolation ==
    \/ va_op = "expand" /\ ~is_prefix(va_self, va_to)
    \/ va_op = "collapse" /\ ~\E F \in Frontiers(va_self) : F \subseteq va_from

\* C19: an internal-consistency violation of expand or collapse aborts in
\* fatal mode, is logged without aborting in warn-only mode, and does
\* nothing when the validity checks are disabled.
C19_ViolationsFollowMode ==
    (va_pc = "done" /\ VaViolation) =>
        /\ va_aborted = (va_enabled /\ ~va_warn_only)
        /\ va_logged = (IF va_enabled THEN 1 ELSE 0)

\* A violation of expand or collapse aborts whatever the configuration
VaViolationsAlwaysAbort ==
    (va_pc = "done" /\ va_op \in {"expand", "collapse"}) => (va_aborted = VaViolation)

(***************************************************************************)
(* Properties of the recording flag.                                       *)
(***************************************************************************)
\* C20: the recording flag is false before any invocation of run_pcg, true
\* whenever an invocation is in its fixpoint computation, and false when no
\* invocation is running and every one has returned, also when invocations
\* overlap in time.
C20_FlagOnDuringFixpoint ==
    /\ (\A t \in Threads : rp_pc[t] = "idle" /\ rp_runs[t] = 0) => ~rp_record_pcg
    /\ (\E t \in Threads : rp_pc[t] = "fixpoint") => rp_record_pcg
    /\ (\A t \in Threads : rp_pc[t] = "idle") => ~rp_record_pcg

\* The same while one thread only has called run_pcg
C20_FlagOnForOneThread ==
    (\E t \in Threads : \A u \in Threads \ {t} : rp_pc[u] = "idle" /\ rp_runs[u] = 0)
        => C20_FlagOnDuringFixpoint

(***************************************************************************)
(* Properties of the actions.                                              *)
(***************************************************************************)
\* C21: every Weaken that exists has a from capability strictly greater
\* than its to capability whenever to is present
C21_WeakenStrictlyDecreases ==
    \A k \in 1..Len(wk_actions) :
        wk_actions[k].to # NoCapability =>
            cap_gt(wk_actions[k].from, wk_actions[k].to)

(***************************************************************************)
(* Properties of the visitor.                                              *)
(***************************************************************************)
\* The rvalue hands a reference on to the target
CarriesReference(rvalue) ==
    \E k \in 1..Len(rvalue.operands) :
        /\ rvalue.operands[k].kind # "Constant"
        /\ rvalue.operands[k].place.ty \in {"&i32", "&mut i32"}

\* The kinds of rvalue that some pass of the visitor has a rule for
RvalueModelled(rvalue) ==
    \/ rvalue.kind \in {"Use", "Ref", "RawPtr", "Len", "Discriminant", "CopyForDeref"}
    \/ rvalue.kind = "Aggregate" /\ rvalue.agg \in {"Adt", "Tuple"}

\* C22: an assignment whose rvalue is of a kind the analysis does not model
\* stops the analysis: no effect of the instruction returns and lets the
\* analysis go on without the borrow effect of the rvalue
C22_UnmodelledRvalueStops ==
    /\ bv_instruction.kind = "Assign"
    /\ CarriesReference(bv_instruction.rvalue)
    /\ ~RvalueModelled(bv_instruction.rvalue)
    => bv_pc \notin {"main", "done"}


\* The operations pass k of the instruction applied to the state: 1 and 2
\* are the preparing and the applying pass of the before phase, 3 and 4
\* those of the main phase
PassOps(k) == SubSeq(bv_passes[k].to, Len(bv_passes[k].from) + 1, Len(bv_passes[k].to))

\* Pass k applied one of the operations ops to one of the places
Does(k, ops, places) ==
    \E i \in 1..Len(PassOps(k)) : PassOps(k)[i].op \in ops /\ PassOps(k)[i].place \in places

\* The places the instruction moves out of
MovedPlaces ==
    {o.place : o \in {p \in Range(bv_instruction.rvalue.operands)
                              \cup Range(bv_instruction.args) : p.kind = "Move"}}

\* The operations of the real effect but the trimming of old leaves, on any place
EffectOps ==
    {"add_reborrow", "change_pcs_elem", "delete_descendants_of",
     "add_region_projection_member", "construct_region_abstraction_if_necessary"}

AnyBvPlace == {NoBvPlace} \cup {IF d THEN project_deref(p) ELSE p : p \in BvPlaces({1, 2}), d \in BOOLEAN}

\* What C23 and its amended form share: the moved operands, the freezing at
\* StorageDead, the expansion of the target, and the effect without the trimming
PassesDisjoint(k) ==
    /\ Does(k, {"set_latest", "make_place_old"}, MovedPlaces) => k = 1
    /\ (/\ bv_instruction.kind = "StorageDead"
        /\ Does(k, {"make_place_old"}, {bv_instruction.place})) => k = 3
    /\ (/\ bv_instruction.kind = "Assign"
        /\ Does(k, {"ensure_expansion_to_exactly"}, {bv_instruction.target})) => k = 3
    /\ Does(k, {"set_latest"}, {bv_instruction.target}) => k = 4
    /\ Does(k, EffectOps, AnyBvPlace) => k = 4

\* C23: a moved operand's place is marked latest and frozen only in the
\* preparing pass of the before phase; storage-dead freezing and the
\* expansion of a non-owned assignment target happen only in the preparing
\* pass of the main phase; the real effect, the trimming of old leaves
\* included, happens only in the applying pass of the main phase
C23_PassesDisjoint ==
    \A k \in 1..Len(bv_passes) :
        /\ PassesDisjoint(k)
        /\ Does(k, {"trim_old_leaves"}, {NoBvPlace}) => k = 4

\* C23 as amended: the same, but old leaves are trimmed in the applying pass
\* of the main phase and, for a StorageDead statement, also in the preparing
\* pass of the main phase
C23_PassesDisjointButStorageDeadTrim ==
    \A k \in 1..Len(bv_passes) :
        /\ PassesDisjoint(k)
        /\ Does(k, {"trim_old_leaves"}, {NoBvPlace}) =>
              k = 4 \/ (k = 3 /\ bv_instruction.kind = "StorageDead")

\* A move of a mutable reference into a target behind a reference: every
\* pass but the applying pass of the before phase did its part
C23_Witness ==
    /\ bv_pc = "done"
    /\ bv_instruction.kind = "Assign"
    /\ bv_instruction.rvalue.kind = "Use"
    /\ Does(1, {"make_place_old"}, MovedPlaces)
    /\ Does(3, {"ensure_expansion_to_exactly"}, {bv_instruction.target})
    /\ Does(4, {"change_pcs_elem"}, AnyBvPlace)
    /\ Does(4, {"trim_old_leaves"}, {NoBvPlace})

\* C29: after the before-effect of an instruction before_start and
\* before_after are equal, and both equal the working state after as the
\* before-effect left it
C29_BeforeApplyingChangesNothing ==
    bv_pc \in {"main", "done"} =>
        /\ bv_state.before_start = bv_state.before_after
        /\ bv_pc = "main" => bv_state.before_after = bv_state.after

\* The before-effect of a call with a moved argument has returned, and its
\* preparing pass changed the state
C29_Witness ==
    /\ bv_pc = "main"
    /\ bv_instruction.kind = "Call"
    /\ MovedPlaces # {}
    /\ bv_state.before_start # bv_passes[1].from


\* The nodes the full graph reaches from the nodes S through nodes that are
\* old or whose region is not live
RECURSIVE ReachedThroughDead(_)
ReachedThroughDead(S) ==
    Let(S \cup {e[2] : e \in {d \in cg_bg : d[1] \in S /\ ~CgLive(d[1])}}, LAMBDA T :
        IF T = S THEN S ELSE ReachedThroughDead(T))

\* C24: for every edge a -> b of the coupling graph with a different from
\* b, the full graph has a path from a to b all of whose intermediate nodes
\* are old or have a region that is not live at the start of the block
C24_EdgesFollowDeadPaths ==
    \A e \in cg_coupling_graph :
        e[1] # e[2] => e[2] \in ReachedThroughDead({d[2] : d \in {c \in cg_bg : c[1] = e[1]}})

\* The construction is over with an edge that the full graph does not have:
\* it stands for a path through a dead node
C24_Witness ==
    /\ cg_pc = "done"
    /\ \E e \in cg_coupling_graph : e[1] # e[2] /\ e \notin cg_bg


(***************************************************************************)
(* Properties of the start block.                                          *)
(***************************************************************************)
\* The reborrows of the start state whose assigned place is *_arg
ReborrowsOfArg(arg) ==
    {r \in DOMAIN sb_state.after : r.assigned_place = mk_deref(LocalPlace(arg))}

\* C25: the state of the start block has exactly one reborrow per argument
\* of reference type, from the remote place of the argument to the
\* dereference of the argument, with the mutability and region of the type
\* and the location START, and no reborrow for any other argument
C25_OneReborrowPerRefArg ==
    sb_pc = "initialized" =>
        /\ \A arg \in 1..Len(sb_arg_tys) :
              ReborrowsOfArg(arg) =
                  IF sb_arg_tys[arg].kind = "Ref"
                  THEN {[blocked_place |-> [kind |-> "Remote", local |-> arg],
                         assigned_place |-> mk_deref(LocalPlace(arg)),
                         mutability |-> sb_arg_tys[arg].is_mut,
                         location |-> [block |-> START_BLOCK, statement_index |-> 0],
                         region |-> sb_arg_tys[arg].region]}
                  ELSE {}
        /\ DOMAIN sb_state.after = UNION {ReborrowsOfArg(arg) : arg \in 1..Len(sb_arg_tys)}
        /\ \A r \in DOMAIN sb_state.after : sb_state.after[r] = {}

\* A body with a mutable reference argument and an argument that is not a
\* reference has been initialized
C25_Witness ==
    /\ sb_pc = "initialized"
    /\ \E a, b \in 1..Len(sb_arg_tys) :
          /\ sb_arg_tys[a].kind = "Ref" /\ sb_arg_tys[a].is_mut
          /\ sb_arg_tys[b].kind # "Ref"
    /\ sb_state.after # EmptyGraph


(***************************************************************************)
(* Properties of compute_loop_blocks.                                      *)
(***************************************************************************)
\* The natural loop of the back edge: the header and every block from which
\* the source is reached without passing through the header; the loop of an
\* edge from the header to itself is the header alone
NaturalLoop ==
    {lb_loop_header} \cup
        (IF lb_back_edge_source = lb_loop_header THEN {}
         ELSE ReachingAvoiding(lb_cfg, {lb_back_edge_source}, lb_loop_header))

\* C26: compute_loop_blocks returns exactly the natural loop of the back
\* edge, also when the source of the back edge is the header itself
C26_ReturnsNaturalLoop == lb_pc = "done" => lb_loop_blocks = NaturalLoop

\* The same for the back edges whose source is not the header
LbNaturalLoopOfProperBackEdge ==
    lb_pc = "done" /\ lb_back_edge_source # lb_loop_header => lb_loop_blocks = NaturalLoop

\* compute_loop_blocks returns on every graph
LbTerminates == <>(lb_pc = "done")


(***************************************************************************)
(* Properties of the value the joins return.                               *)
(***************************************************************************)
\* C27: a join that returns has returned true if and only if the receiver
\* after the call differs from the receiver before the call: the join of
\* summaries (and with it the join of the local and of its projections) and
\* the join of capability maps
C27_JoinReportsChange ==
    /\ (jn_pc \in {"ab", "done"} /\ ~jn_ab.panicked) =>
           (jn_ab.changed <=> jn_ab.summary # jn_a)
    /\ (jn_pc = "done" /\ ~jn_ba.panicked) =>
           (jn_ba.changed <=> jn_ba.summary # jn_b)
    /\ pc_pc \in {"ab", "abc", "ac", "done"} => (pc_ab.changed <=> pc_ab.caps # pc_a)
    /\ pc_pc \in {"abc", "ac", "done"} => (pc_abc.changed <=> pc_abc.caps # pc_ab.caps)

\* The same for the join of capability maps alone
PcJoinReportsChange ==
    /\ pc_pc \in {"ab", "abc", "ac", "done"} => (pc_ab.changed <=> pc_ab.caps # pc_a)
    /\ pc_pc \in {"abc", "ac", "done"} => (pc_abc.changed <=> pc_abc.caps # pc_ab.caps)
    /\ pc_pc \in {"ac", "done"} => (pc_ac.changed <=> pc_ac.caps # pc_a)
    /\ pc_pc = "done" => (pc_acb.changed <=> pc_acb.caps # pc_ac.caps)

\* The same for the join of summaries, for receivers that are Unallocated or
\* that the donor is Unallocated for
JnJoinWithUnallocatedReportsChange ==
    (jn_pc \in {"ab", "done"} /\ (~JnA.allocated \/ ~JnB.allocated)) =>
        (jn_ab.changed <=> jn_ab.summary # jn_a)

\* The same for receivers that track a place, when the receiver does not
\* change
JnUnchangedReportsFalse ==
    (jn_pc \in {"ab", "done"} /\ ~jn_ab.panicked /\ JnA.places # EmptyCaps
        /\ jn_ab.summary = jn_a) => ~jn_ab.changed


(***************************************************************************)
(* Properties of the join of the state of a local.                         *)
(***************************************************************************)
\* C28: a join with the receiver or the donor Unallocated leaves the
\* receiver Unallocated and returns true only when the receiver was
\* Allocated; and a receiver that is Unallocated stays Unallocated through
\* every later join
C28_UnallocatedAbsorbs ==
    /\ [](cl_joins > 0 /\ (~cl_before.allocated \/ ~cl_donor.allocated) =>
             /\ cl_receiver = Unallocated
             /\ cl_changed <=> cl_before.allocated)
    /\ [][cl_receiver = Unallocated => cl_receiver' = Unallocated]_vars

\* The second join of a run, into a receiver that is Unallocated, from a
\* donor that is Allocated with a tracked place
C28_Witness ==
    /\ cl_joins = 2
    /\ cl_before = Unallocated
    /\ cl_donor.allocated /\ cl_donor.places # EmptyCaps
    /\ cl_receiver = Unallocated


(***************************************************************************)
(* Properties of the order of the steps of collapse.                       *)
(***************************************************************************)
\* C30: in the list collapse returns, every step that folds into a place P
\* comes after all steps that fold into strict descendants of P, whichever
\* expansion guides were picked; and the places of the from set that are
\* not under the collapsed place are left in the set, and nothing else is
C30_CollapseInnermostFirst ==
    co_pc # "start" =>
        /\ co_pc = "collapsed"
        /\ \A i, j \in 1..Len(co_collapsed) :
              ProperPrefix(co_collapsed[i][1], co_collapsed[j][1]) => j < i
        /\ co_from = {q \in co_given : ~is_prefix(co_self, q)}

\* Two levels are folded, the guide picked first was the place outside the
\* inner level, and a place that is not under the collapsed place was in
\* the set
C30_Witness ==
    /\ co_pc = "collapsed"
    /\ Len(co_collapsed) >= 2
    /\ ProperPrefix(Last(co_collapsed)[1], co_collapsed[1][1])
    /\ ~is_prefix(co_collapsed[1][1], Last(co_collapsed)[2])
    /\ co_from # {}

====
